---- MODULE Spec2Model ----
(***************************************************************************)
(* Loyalty ledger and rewards core of exclusivity-platform:                *)
(*   loyalty_policy.py, tier_engine.py, points_ledger.py,                  *)
(*   rewards_allocator.py (routes/services/loyalty) and the service and    *)
(*   repository that drive them (services/loyalty).                        *)
(* Currency values are Python Decimals.  They are modelled by value, as    *)
(* sign, coefficient and exponent, with the arithmetic of the default      *)
(* decimal context (28 significant digits, ROUND_HALF_EVEN).  A            *)
(* coefficient is a natural number of any size, held as a sequence of      *)
(* limbs in base 10^4, least significant limb first.                       *)
(***************************************************************************)
EXTENDS Integers, Sequences, FiniteSets, TLC

\* --------------------------------------------------------------------------
\* Naturals of any size (<<>> is 0; the last limb is never 0).  Carries are
\* found by look-ahead rather than by a loop over the limbs.
\* --------------------------------------------------------------------------
LimbBase == 10000

SetMax(S) ==
    CHOOSE i \in S : \A j \in S : j <= i

SetMin(S) ==
    CHOOSE i \in S : \A j \in S : i <= j

LLimb(a, i) ==
    IF i >= 1 /\ i <= Len(a) THEN a[i] ELSE 0

LTrim(a) ==
    LET nz == {i \in 1..Len(a) : a[i] # 0}
    IN  IF nz = {} THEN <<>> ELSE SubSeq(a, 1, SetMax(nz))

\* a machine integer n >= 0 as a natural
LOfInt(n) ==
    LTrim(<<n % LimbBase, (n \div LimbBase) % LimbBase, n \div (LimbBase * LimbBase)>>)

\* the machine integer of a natural below 2^31
IntOfL(a) ==
    LLimb(a, 1) + LimbBase * LLimb(a, 2) + LimbBase * LimbBase * LLimb(a, 3)

\* -1, 0, 1 as a < b, a = b, a > b
LCmp(a, b) ==
    LET n == IF Len(a) > Len(b) THEN Len(a) ELSE Len(b)
        d == {i \in 1..n : LLimb(a, i) # LLimb(b, i)}
    IN  IF d = {} THEN 0
        ELSE IF LLimb(a, SetMax(d)) < LLimb(b, SetMax(d)) THEN -1 ELSE 1

LAdd(a, b) ==
    LET n == (IF Len(a) > Len(b) THEN Len(a) ELSE Len(b)) + 1
        s == [i \in 1..n |-> LLimb(a, i) + LLimb(b, i)]
        carry(i) == IF \E j \in 1..(i - 1) :
                          /\ s[j] >= LimbBase
                          /\ \A k \in (j + 1)..(i - 1) : s[k] = LimbBase - 1
                    THEN 1 ELSE 0
    IN  LTrim([i \in 1..n |-> (s[i] + carry(i)) % LimbBase])

\* a - b for a >= b
LSub(a, b) ==
    LET borrow(i) == IF \E j \in 1..(i - 1) :
                           /\ a[j] < LLimb(b, j)
                           /\ \A k \in (j + 1)..(i - 1) : a[k] = LLimb(b, k)
                     THEN 1 ELSE 0
    IN  LTrim([i \in 1..Len(a) |->
                 (a[i] - LLimb(b, i) - borrow(i) + LimbBase) % LimbBase])

\* a * LimbBase^m
LShiftLimbs(a, m) ==
    IF a = <<>> \/ m <= 0 THEN a ELSE [i \in 1..m |-> 0] \o a

\* a * k for a machine integer 0 <= k <= LimbBase
LMulSmall(a, k) ==
    LAdd(LTrim([i \in 1..Len(a) |-> (a[i] * k) % LimbBase]),
         LShiftLimbs(LTrim([i \in 1..Len(a) |-> (a[i] * k) \div LimbBase]), 1))

RECURSIVE LMulAcc(_, _, _, _)
LMulAcc(a, b, i, acc) ==
    IF i > Len(b) \/ Len(acc) < 0 THEN acc
    ELSE LMulAcc(a, b, i + 1, LAdd(acc, LShiftLimbs(LMulSmall(a, b[i]), i - 1)))

LMul(a, b) ==
    IF Len(b) <= Len(a) THEN LMulAcc(a, b, 1, <<>>) ELSE LMulAcc(b, a, 1, <<>>)

Pow10(r) ==
    CASE r = 0 -> 1 [] r = 1 -> 10 [] r = 2 -> 100 [] r = 3 -> 1000 [] OTHER -> 10000

\* a div 10^r for 0 <= r <= 3
LDivPow(a, r) ==
    LTrim([i \in 1..Len(a) |->
             a[i] \div Pow10(r) + (LLimb(a, i + 1) % Pow10(r)) * Pow10(4 - r)])

\* a * 10^k
LShift10(a, k) ==
    IF k <= 0 THEN a ELSE LShiftLimbs(LMulSmall(a, Pow10(k % 4)), k \div 4)

\* 10^k
LPow10(k) ==
    LShift10(<<1>>, k)

\* a div 10^k
LDiv10(a, k) ==
    IF k <= 0 THEN a
    ELSE IF k \div 4 >= Len(a) THEN <<>>
    ELSE LDivPow(SubSeq(a, k \div 4 + 1, Len(a)), k % 4)

\* the number of decimal digits of a
LDigits(a) ==
    IF a = <<>> THEN 0
    ELSE 4 * (Len(a) - 1)
         + (IF a[Len(a)] >= 1000 THEN 4 ELSE IF a[Len(a)] >= 100 THEN 3
            ELSE IF a[Len(a)] >= 10 THEN 2 ELSE 1)

\* one step of long division by b, whose last limb is at least LimbBase / 2:
\* the quotient limb of cur (< b * LimbBase) is the estimate made from the
\* leading limbs, or up to three below it (Knuth, algorithm D)
LQuotLimb(cur, b) ==
    LET m   == Len(b)
        est == (LLimb(cur, m + 1) * LimbBase + LLimb(cur, m)) \div b[m]
        hi  == IF est > LimbBase - 1 THEN LimbBase - 1 ELSE est
    IN  hi - (CHOOSE k \in 0..3 : k = hi \/ LCmp(LMulSmall(b, hi - k), cur) <= 0)

\* long division of a by b from limb i down, with the quotient limbs q found
\* so far and the running remainder r: [q, exact]
RECURSIVE LDivAcc(_, _, _, _, _)

\* the step that puts the quotient limb d of the current remainder cur
LDivPut(a, b, i, q, cur, d) ==
    IF d + Len(q) < 0 THEN [q |-> <<>>, exact |-> FALSE]
    ELSE LDivAcc(a, b, i - 1, <<d>> \o q, LSub(cur, LMulSmall(b, d)))

\* the step that finds the quotient limb of the current remainder cur
LDivLimb(a, b, i, q, cur) ==
    LDivPut(a, b, i, q, cur, LQuotLimb(cur, b))

LDivAcc(a, b, i, q, r) ==
    IF i < 1 THEN [q |-> LTrim(q), exact |-> r = <<>>]
    ELSE LDivLimb(a, b, i, q, LTrim(<<a[i]>> \o r))

\* the factor that makes the last limb of b at least LimbBase / 2
LDivScale(b) ==
    LimbBase \div (b[Len(b)] + 1)

\* a div b from the scaled an and bn
LDivScaled(a, an, bn) ==
    IF Len(an) < Len(bn) THEN [q |-> <<>>, exact |-> a = <<>>]
    ELSE LDivAcc(an, bn, Len(an) - Len(bn) + 1, <<>>,
                 LTrim(SubSeq(an, Len(an) - Len(bn) + 2, Len(an))))

\* a div b for b # 0 and whether the division is exact: [q, exact].  Both
\* are scaled first, to make the last limb of the divisor at least
\* LimbBase / 2; that changes neither the quotient nor its exactness.
LDivExact(a, b) ==
    LDivScaled(a, LMulSmall(a, LDivScale(b)), LMulSmall(b, LDivScale(b)))

\* a cut at 10^k with quotient q and discarded part rem (see LSplit10)
LSplitRem(q, rem, k) ==
    [q     |-> q,
     exact |-> rem = <<>>,
     half  |-> IF k <= 0 THEN -1 ELSE LCmp(LMulSmall(rem, 2), LPow10(k))]

\* a cut at 10^k with quotient q (see LSplit10)
LSplitQuot(a, q, k) ==
    LSplitRem(q, LSub(a, LShift10(q, k)), k)

\* a cut at 10^k: the quotient q, and the discarded part against one half
\* of 10^k (half: -1 below, 0 exactly half, 1 above; exact: nothing discarded)
LSplit10(a, k) ==
    LSplitQuot(a, LDiv10(a, k), k)

LIsOdd(a) ==
    a # <<>> /\ a[1] % 2 = 1

\* --------------------------------------------------------------------------
\* decimal.Decimal by value: (-1)^neg * c * 10^e, kept with c not divisible
\* by 10 (0 is c = <<>>, e = 0), so that two records are equal exactly when
\* the numbers are.
\* --------------------------------------------------------------------------
\* precision of the default decimal context
Prec == 28

DNorm(neg, c, e) ==
    IF LTrim(c) = <<>> THEN [neg |-> FALSE, c |-> <<>>, e |-> 0]
    ELSE LET z == SetMin({i \in 1..Len(c) : c[i] # 0}) - 1
             v == c[z + 1]
             t == IF v % 1000 = 0 THEN 3 ELSE IF v % 100 = 0 THEN 2
                  ELSE IF v % 10 = 0 THEN 1 ELSE 0
         IN  [neg |-> neg,
              c   |-> LDivPow(SubSeq(LTrim(c), z + 1, Len(LTrim(c))), t),
              e   |-> e + 4 * z + t]

\* Decimal._fix: round an exact result to Prec significant digits, half even
DFixSplit(neg, sp, e) ==
    DNorm(neg,
          IF sp.half > 0 \/ (sp.half = 0 /\ LIsOdd(sp.q))
          THEN LAdd(sp.q, <<1>>) ELSE sp.q,
          e)

\* the number of digits of c beyond Prec
DExcess(c) ==
    IF LDigits(c) <= Prec THEN 0 ELSE LDigits(c) - Prec

DFix(neg, c, e) ==
    DFixSplit(neg, LSplit10(c, DExcess(c)), e + DExcess(c))

DZero == [neg |-> FALSE, c |-> <<>>, e |-> 0]

\* Decimal(n) for an integer n
DInt(n) ==
    DNorm(n < 0, LOfInt(IF n < 0 THEN -n ELSE n), 0)

\* Decimal of n hundredths: Decimal("12.34") is DCents(1234)
DCents(n) ==
    DNorm(n < 0, LOfInt(IF n < 0 THEN -n ELSE n), -2)

\* Decimal of n ten-thousandths: Decimal("0.029") is DRate(290)
DRate(n) ==
    DNorm(n < 0, LOfInt(IF n < 0 THEN -n ELSE n), -4)

DMinExp(x, y) ==
    IF x.e < y.e THEN x.e ELSE y.e

\* the coefficient of x at an exponent e <= x.e
DCoefAt(x, e) ==
    LShift10(x.c, x.e - e)

\* -1, 0, 1 as x < y, x = y, x > y
DCmp(x, y) ==
    IF x.neg # y.neg THEN (IF x.neg THEN -1 ELSE 1)
    ELSE (IF x.neg THEN -1 ELSE 1)
         * LCmp(DCoefAt(x, DMinExp(x, y)), DCoefAt(y, DMinExp(x, y)))

\* -1, 0, 1 as x < 0, x = 0, x > 0
DSign(x) ==
    IF x.c = <<>> THEN 0 ELSE IF x.neg THEN -1 ELSE 1

DNeg(x) ==
    IF x.c = <<>> THEN x ELSE [x EXCEPT !.neg = ~x.neg]

\* the sum of two numbers with coefficients cx and cy at the same exponent e
DAddAligned(xneg, cx, yneg, cy, e) ==
    DFix(IF xneg = yneg \/ LCmp(cx, cy) >= 0 THEN xneg ELSE yneg,
         IF xneg = yneg THEN LAdd(cx, cy)
         ELSE IF LCmp(cx, cy) >= 0 THEN LSub(cx, cy) ELSE LSub(cy, cx),
         e)

\* Decimal.__add__
DAdd(x, y) ==
    IF x.neg = y.neg /\ x.c = <<>> /\ y.c = <<>> THEN DZero
    ELSE DAddAligned(x.neg, DCoefAt(x, DMinExp(x, y)),
                     y.neg, DCoefAt(y, DMinExp(x, y)), DMinExp(x, y))

\* Decimal.__sub__
DSub(x, y) ==
    DAdd(x, DNeg(y))

\* Decimal.__mul__
DMul(x, y) ==
    IF x.c = <<>> \/ y.c = <<>> THEN DZero
    ELSE DFix(x.neg # y.neg, LMul(x.c, y.c), x.e + y.e)

\* Decimal.__truediv__ for y # 0: Prec + 1 or Prec + 2 digits of quotient,
\* made sticky when the division is inexact, then rounded by _fix
DDivShift(x, y) ==
    LDigits(y.c) - LDigits(x.c) + Prec + 1

DDivSticky(neg, qr, e) ==
    DFix(neg,
         IF ~qr.exact /\ (qr.q = <<>> \/ qr.q[1] % 5 = 0)
         THEN LAdd(qr.q, <<1>>) ELSE qr.q,
         e)

DDiv(x, y) ==
    IF x.c = <<>> THEN DZero
    ELSE DDivSticky(x.neg # y.neg,
                    LDivExact(LShift10(x.c, DDivShift(x, y)),
                              LShift10(y.c, -DDivShift(x, y))),
                    x.e - y.e - DDivShift(x, y))

\* |x| cut at the units place (see LSplit10)
DSplit(x) ==
    IF x.e >= 0
    THEN [q |-> DCoefAt(x, 0), exact |-> TRUE, half |-> -1]
    ELSE LSplit10(x.c, -x.e)

\* the integer of sign neg whose magnitude is the cut sp moved up by 1 when up
DSigned(neg, sp, up) ==
    (IF neg THEN -1 ELSE 1) * (IntOfL(sp.q) + (IF up THEN 1 ELSE 0))

\* int(x): truncation toward zero
DTrunc(x) ==
    DSigned(x.neg, DSplit(x), FALSE)

DFloorSplit(neg, sp) ==
    DSigned(neg, sp, neg /\ ~sp.exact)

\* x.to_integral_value(rounding=ROUND_FLOOR)
DFloor(x) ==
    DFloorSplit(x.neg, DSplit(x))

DHalfUpSplit(neg, sp) ==
    DSigned(neg, sp, sp.half >= 0)

\* x.to_integral_value(rounding=ROUND_HALF_UP): ties away from zero
DRoundHalfUp(x) ==
    DHalfUpSplit(x.neg, DSplit(x))

\* x.quantize(Decimal("0.01"), rounding=ROUND_HALF_UP), in hundredths
DQuantCents(x) ==
    DRoundHalfUp([x EXCEPT !.e = x.e + 2])

\* _q2(x)
Q2(x) ==
    DCents(DQuantCents(x))

\* --------------------------------------------------------------------------
\* str.  A text is a sequence of tokens ("" is <<>>), so that an f-string is
\* the concatenation of its parts; Tokens lists the tokens in str order.
\* None, where a text is optional, is <<>> too: the code tests such fields
\* for truthiness only, and None and "" are both falsy.
\* --------------------------------------------------------------------------
Tokens ==
    <<":", "L1", "L2", "e1", "e2", "earn", "idem", "k1", "m1", "m2", "o1", "o2", "o3", "r1", "r2", "refund">>

TokRank(t) ==
    CHOOSE i \in 1..Len(Tokens) : Tokens[i] = t

\* a < b on str
StrLess(a, b) ==
    \E k \in 0..Len(a) :
        /\ k <= Len(b)
        /\ \A i \in 1..k : a[i] = b[i]
        /\ \/ k = Len(a) /\ k < Len(b)
           \/ k < Len(a) /\ k < Len(b) /\ TokRank(a[k + 1]) < TokRank(b[k + 1])

\* sorted(list(S)) for a set S of texts
SortedTexts(S) ==
    [p \in 1..Cardinality(S) |->
        CHOOSE s \in S : Cardinality({t \in S : StrLess(t, s)}) = p - 1]

NoKey == <<>>

\* --------------------------------------------------------------------------
\* points_ledger.py
\* --------------------------------------------------------------------------
EventTypes ==
    {"earn", "refund", "correction", "admin_grant", "admin_revoke"}

\* meta.get("eligible_spend") of an event whose meta has no such entry
NoAmount == -1

\* the entries of meta the code reads back: "eligible_spend", the text of an
\* amount quantized to hundredths and held as that number of hundredths, and
\* "order_id"
Meta(eligible_spend, order_id) ==
    [eligible_spend |-> eligible_spend, order_id |-> order_id]

\* LedgerEvent(...); created_at is the ISO text of a second, held as the
\* number of that second (texts of one format compare as their instants do)
LedgerEvent(event_id, member_ref, event_type, points_delta, idempotency_key, related_ref, related_line_ref, created_at, meta) ==
    [event_id         |-> event_id,
     member_ref       |-> member_ref,
     event_type       |-> event_type,
     points_delta     |-> points_delta,
     idempotency_key  |-> idempotency_key,
     related_ref      |-> related_ref,
     related_line_ref |-> related_line_ref,
     created_at       |-> created_at,
     meta             |-> meta]

\* the sort key (e.created_at, e.event_id) of e is below that of f
KeyLess(e, f) ==
    \/ e.created_at < f.created_at
    \/ e.created_at = f.created_at /\ StrLess(e.event_id, f.event_id)

\* the events in the order they were supplied
AsSupplied(evs) ==
    evs

\* sorted(list(events), key=lambda e: (e.created_at, e.event_id)): stable
Ordered(evs) ==
    LET n      == Len(evs)
        pos    == [i \in 1..n |->
                      1 + Cardinality({j \in 1..n :
                              \/ KeyLess(evs[j], evs[i])
                              \/ j < i /\ ~KeyLess(evs[i], evs[j])})]
    IN  [p \in 1..n |-> evs[CHOOSE i \in 1..n : pos[i] = p]]

\* the loop body without its test of applied_event_ids
ReduceApplyIgnoringEventId(acc, e, member_ref) ==
    IF e.member_ref # member_ref THEN acc
    ELSE IF e.idempotency_key # NoKey /\ e.idempotency_key \in acc.applied_idem THEN acc
    ELSE [balance           |-> acc.balance + e.points_delta,
          total_earned      |-> IF e.points_delta >= 0
                                THEN acc.total_earned + e.points_delta
                                ELSE acc.total_earned,
          total_removed     |-> IF e.points_delta >= 0
                                THEN acc.total_removed
                                ELSE acc.total_removed - e.points_delta,
          applied_event_ids |-> acc.applied_event_ids \cup {e.event_id},
          applied_idem      |-> IF e.idempotency_key # NoKey
                                THEN acc.applied_idem \cup {e.idempotency_key}
                                ELSE acc.applied_idem]

\* the body of the loop of reduce for one event e
ReduceApply(acc, e, member_ref) ==
    IF e.member_ref # member_ref THEN acc
    ELSE IF e.event_id \in acc.applied_event_ids THEN acc
    ELSE IF e.idempotency_key # NoKey /\ e.idempotency_key \in acc.applied_idem THEN acc
    ELSE [balance           |-> acc.balance + e.points_delta,
          total_earned      |-> IF e.points_delta >= 0
                                THEN acc.total_earned + e.points_delta
                                ELSE acc.total_earned,
          total_removed     |-> IF e.points_delta >= 0
                                THEN acc.total_removed
                                ELSE acc.total_removed - e.points_delta,
          applied_event_ids |-> acc.applied_event_ids \cup {e.event_id},
          applied_idem      |-> IF e.idempotency_key # NoKey
                                THEN acc.applied_idem \cup {e.idempotency_key}
                                ELSE acc.applied_idem]

RECURSIVE ReduceLoop(_, _, _, _)
ReduceLoop(ordered, i, acc, member_ref) ==
    IF i > Len(ordered) THEN acc
    ELSE LET next == ReduceApply(acc, ordered[i], member_ref)
         IN  IF next.balance = next.balance
             THEN ReduceLoop(ordered, i + 1, next, member_ref)
             ELSE acc

\* reduce without its clamp
ClampBalanceNever(balance, allow_negative_balance) ==
    balance

\* the clamp of reduce
ClampBalance(balance, allow_negative_balance) ==
    IF ~allow_negative_balance /\ balance < 0 THEN 0 ELSE balance

\* PointsLedger(allow_negative_balance).reduce(member_ref, events)
reduce(allow_negative_balance, member_ref, evs) ==
    LET acc == ReduceLoop(Ordered(evs), 1,
                          [balance |-> 0, total_earned |-> 0, total_removed |-> 0,
                           applied_event_ids |-> {}, applied_idem |-> {}],
                          member_ref)
    IN  [member_ref               |-> member_ref,
         points_balance           |-> ClampBalance(acc.balance, allow_negative_balance),
         total_earned             |-> acc.total_earned,
         total_spent_or_removed   |-> acc.total_removed,
         applied_event_ids        |-> SortedTexts(acc.applied_event_ids),
         applied_idempotency_keys |-> SortedTexts(acc.applied_idem)]

\* make_earn_event(...): an earn event stamped with the clock
make_earn_event(event_id, member_ref, points, idempotency_key, order_id, order_line_id, created_at, eligible_spend) ==
    LedgerEvent(event_id, member_ref, "earn", IF points > 0 THEN points ELSE 0,
                idempotency_key, order_id, order_line_id, created_at,
                Meta(eligible_spend, <<>>))

\* make_refund_event(...): related_ref is refund_id or order_id
make_refund_event(event_id, member_ref, points_to_remove, idempotency_key, order_id, refund_id, order_line_id, created_at) ==
    LedgerEvent(event_id, member_ref, "refund",
                IF points_to_remove > 0 THEN -points_to_remove ELSE points_to_remove,
                idempotency_key, IF refund_id # <<>> THEN refund_id ELSE order_id,
                order_line_id, created_at, Meta(NoAmount, order_id))

\* --------------------------------------------------------------------------
\* loyalty_policy.py.  A policy is [tiers, points_per_currency_unit,
\* earn_rate_of_eligible_spend, rounding, allow_downgrades,
\* allow_negative_points_balance]; a tier is [key, min_lifetime_spend].
\* --------------------------------------------------------------------------
Tier(key, min_lifetime_spend) ==
    [key |-> key, min_lifetime_spend |-> min_lifetime_spend]

\* LoyaltyPolicy.default_tiers(), thresholds in hundredths
default_tiers ==
    <<Tier("bronze", DCents(0)), Tier("silver", DCents(50000)),
      Tier("gold", DCents(200000)), Tier("platinum", DCents(750000)),
      Tier("black_label", DCents(2500000))>>

\* sorted(self.tiers, key=lambda t: t.min_lifetime_spend): stable
sorted_tiers(tiers) ==
    LET n      == Len(tiers)
        less(i, j) == DCmp(tiers[i].min_lifetime_spend, tiers[j].min_lifetime_spend) < 0
        pos    == [i \in 1..n |->
                      1 + Cardinality({j \in 1..n : less(j, i) \/ (j < i /\ ~less(i, j))})]
    IN  [p \in 1..n |-> tiers[CHOOSE i \in 1..n : pos[i] = p]]

\* LoyaltyPolicy._validate passes (names and expiry apart)
ValidPolicy(p) ==
    /\ DSign(p.points_per_currency_unit) > 0
    /\ DSign(p.earn_rate_of_eligible_spend) >= 0
    /\ DCmp(p.earn_rate_of_eligible_spend, DInt(1)) < 0
    /\ p.rounding \in {"nearest", "down"}
    /\ Len(p.tiers) >= 1
    /\ \A i \in 1..Len(p.tiers) :
          /\ p.tiers[i].key # ""
          /\ DSign(p.tiers[i].min_lifetime_spend) >= 0
          /\ \A j \in 1..Len(p.tiers) : p.tiers[i].key = p.tiers[j].key => i = j
    /\ sorted_tiers(p.tiers)[1].min_lifetime_spend = DZero

\* the clamp of a spend at 0.00
NonNegative(x) ==
    IF DSign(x) < 0 THEN DZero ELSE x

\* the tiers in the order the policy lists them
tiers_as_listed(p) ==
    p.tiers

\* the list tier_for_lifetime_spend walks: the tiers sorted by threshold
tiers_by_threshold(p) ==
    sorted_tiers(p.tiers)

\* the tier the loop of tier_for_lifetime_spend ends on: it walks the list
\* st and breaks at the first position in above
tier_at_break(st, above) ==
    IF above = {} THEN st[Len(st)]
    ELSE IF SetMin(above) = 1 THEN st[1]
    ELSE st[SetMin(above) - 1]

\* the loop of tier_for_lifetime_spend over the list st: it breaks at the
\* first tier whose threshold is above the spend
tier_loop(st, spend) ==
    tier_at_break(st, {i \in 1..Len(st) : DCmp(spend, st[i].min_lifetime_spend) < 0})

\* policy.tier_for_lifetime_spend(lifetime_spend)
tier_for_lifetime_spend(p, lifetime_spend) ==
    tier_loop(tiers_by_threshold(p), NonNegative(lifetime_spend))

\* None where a Tier is expected
NoTier ==
    [key |-> "", min_lifetime_spend |-> DZero]

\* the tier at the first position in higher, or None
first_tier(st, higher) ==
    IF higher = {} THEN NoTier ELSE st[SetMin(higher)]

\* the loop of next_tier over the sorted tiers st: the first tier whose
\* threshold is above that of current, or None
next_tier_loop(st, current) ==
    first_tier(st, {i \in 1..Len(st) :
                      DCmp(st[i].min_lifetime_spend, current.min_lifetime_spend) > 0})

\* policy.next_tier(lifetime_spend)
next_tier(p, lifetime_spend) ==
    next_tier_loop(sorted_tiers(p.tiers),
                   tier_for_lifetime_spend(p, NonNegative(lifetime_spend)))

\* _q2 of what is left from spend to the tier nt, at least 0.00, in
\* hundredths; NoAmount (None) when nt is None
remaining_to(nt, spend) ==
    IF nt = NoTier THEN NoAmount
    ELSE DQuantCents(NonNegative(DSub(nt.min_lifetime_spend, spend)))

\* policy.amount_to_next_tier(lifetime_spend) in hundredths, NoAmount for None
amount_to_next_tier(p, lifetime_spend) ==
    remaining_to(next_tier(p, NonNegative(lifetime_spend)),
                 NonNegative(lifetime_spend))

\* int(raw_points.to_integral_value(rounding=...)) under the rounding rule
round_points(rounding, raw_points) ==
    IF rounding = "down" THEN DFloor(raw_points) ELSE DRoundHalfUp(raw_points)

\* max(0, n)
AtLeastZero(n) ==
    IF n < 0 THEN 0 ELSE n

\* policy.points_for_eligible_spend(eligible_spend)
points_for_eligible_spend(p, eligible_spend) ==
    IF DSign(eligible_spend) <= 0 THEN 0
    ELSE AtLeastZero(
             round_points(p.rounding,
                          DMul(DMul(eligible_spend, p.earn_rate_of_eligible_spend),
                               p.points_per_currency_unit)))

\* --------------------------------------------------------------------------
\* rewards_allocator.py.  An order is [order_id, member_ref, lines,
\* discounts_total]; a line is [line_id, unit_price, quantity,
\* eligible_for_points].
\* --------------------------------------------------------------------------
OrderLine(line_id, unit_price, quantity, eligible_for_points) ==
    [line_id |-> line_id, unit_price |-> unit_price, quantity |-> quantity,
     eligible_for_points |-> eligible_for_points]

\* line.line_subtotal()
line_subtotal(line) ==
    DMul(line.unit_price, DInt(IF line.quantity > 0 THEN line.quantity ELSE 0))

\* RewardsAllocator._safe_money(v) for a Decimal v
safe_money(v) ==
    IF DSign(v) < 0 THEN DZero ELSE v

\* sum((amt for _, amt in eligible_by_line), D("0.00")): added left to right
RECURSIVE SumAmounts(_, _, _)
SumAmounts(eligible_by_line, i, acc) ==
    IF i > Len(eligible_by_line) THEN acc
    ELSE SumAmounts(eligible_by_line, i + 1, DAdd(acc, eligible_by_line[i].amt))

\* the first loop of allocate_for_order
eligible_amounts(order) ==
    [i \in 1..Len(order.lines) |->
        [line |-> order.lines[i],
         amt  |-> IF ~order.lines[i].eligible_for_points THEN DZero
                  ELSE safe_money(line_subtotal(order.lines[i]))]]

\* the loop of _apply_proportional_discounts from line i on, with the
\* discount still to hand out and the list adjusted so far
RECURSIVE DiscountLoop(_, _, _, _, _, _)

\* the end of the loop body: the line gets amt - share, at least 0.00, and
\* share leaves remaining_discount
DiscountTake(eligible_by_line, discounts_total, eligible_total, i, remaining_discount, adjusted, share) ==
    DiscountLoop(eligible_by_line, discounts_total, eligible_total, i + 1,
                 DSub(remaining_discount, share),
                 Append(adjusted,
                        [line |-> eligible_by_line[i].line,
                         amt  |-> safe_money(DSub(eligible_by_line[i].amt, share))]))

\* share = share if share <= remaining_discount else remaining_discount
DiscountShare(eligible_by_line, discounts_total, eligible_total, i, remaining_discount, adjusted, share) ==
    DiscountTake(eligible_by_line, discounts_total, eligible_total, i,
                 remaining_discount, adjusted,
                 IF DCmp(share, remaining_discount) <= 0 THEN share
                 ELSE remaining_discount)

DiscountLoop(eligible_by_line, discounts_total, eligible_total, i, remaining_discount, adjusted) ==
    IF i > Len(eligible_by_line) THEN adjusted
    ELSE IF DSign(eligible_by_line[i].amt) <= 0
    THEN DiscountLoop(eligible_by_line, discounts_total, eligible_total, i + 1,
                      remaining_discount, Append(adjusted, eligible_by_line[i]))
    ELSE DiscountShare(eligible_by_line, discounts_total, eligible_total, i,
                       remaining_discount, adjusted,
                       DMul(DDiv(eligible_by_line[i].amt, eligible_total),
                            discounts_total))

\* RewardsAllocator._apply_proportional_discounts
apply_proportional_discounts(eligible_by_line, discounts_total, eligible_total) ==
    IF DSign(discounts_total) <= 0 \/ DSign(eligible_total) <= 0
    THEN eligible_by_line
    ELSE DiscountLoop(eligible_by_line, discounts_total, eligible_total, 1,
                      discounts_total, <<>>)

\* the discount step of allocate_for_order
discount_step(eligible_by_line, discounts, eligible_total) ==
    IF DSign(discounts) > 0 /\ DSign(eligible_total) > 0
    THEN apply_proportional_discounts(eligible_by_line, discounts, eligible_total)
    ELSE eligible_by_line

\* the discount step over the amounts of the first loop and their sum
discounted_from(eligible_by_line, discounts) ==
    discount_step(eligible_by_line, discounts, SumAmounts(eligible_by_line, 1, DZero))

\* eligible_by_line of allocate_for_order after its discount step
discounted_amounts(order) ==
    discounted_from(eligible_amounts(order), safe_money(order.discounts_total))

\* (line, pts, raw - D(pts))
allocation_entry(line, raw, pts) ==
    [line |-> line, pts |-> pts, frac |-> DSub(raw, DInt(pts))]

\* pts = int(raw) and the allocation it gives
allocation_of_raw(line, raw) ==
    allocation_entry(line, raw, DTrunc(raw))

\* the initial allocation of _allocate_points_to_lines: (line, pts, frac)
initial_allocations(eligible_by_line, pts_total, eligible_total) ==
    [i \in 1..Len(eligible_by_line) |->
        IF DSign(eligible_by_line[i].amt) <= 0
        THEN [line |-> eligible_by_line[i].line, pts |-> 0, frac |-> DZero]
        ELSE allocation_of_raw(eligible_by_line[i].line,
                               DMul(DDiv(eligible_by_line[i].amt, eligible_total),
                                    DInt(pts_total)))]

\* sorted(allocations, key=lambda x: x[2], reverse=True): stable
sorted_by_frac(allocations) ==
    LET n      == Len(allocations)
        more(i, j) == DCmp(allocations[i].frac, allocations[j].frac) > 0
        pos    == [i \in 1..n |->
                      1 + Cardinality({j \in 1..n : more(j, i) \/ (j < i /\ ~more(i, j))})]
    IN  [p \in 1..n |-> allocations[CHOOSE i \in 1..n : pos[i] = p]]

\* sum of pts over allocations
RECURSIVE SumPts(_, _)
SumPts(allocations, i) ==
    IF i > Len(allocations) THEN 0 ELSE allocations[i].pts + SumPts(allocations, i + 1)

\* _allocate_points_to_lines without its remainder step
distribute_nothing(allocations, remainder) ==
    allocations

\* one more point for each of the first remainder entries of the list
one_more_each(allocations_sorted, remainder) ==
    [i \in 1..Len(allocations_sorted) |->
        IF i <= remainder
        THEN [allocations_sorted[i] EXCEPT !.pts = @ + 1]
        ELSE allocations_sorted[i]]

\* the remainder step of _allocate_points_to_lines
distribute_remainder(allocations, remainder) ==
    IF remainder > 0
    THEN one_more_each(sorted_by_frac(allocations), remainder)
    ELSE allocations

\* [(line, 0) for line, _ in eligible_by_line]
zero_points(eligible_by_line) ==
    [i \in 1..Len(eligible_by_line) |->
        [line |-> eligible_by_line[i].line, pts |-> 0]]

\* [(line, pts) for (line, pts, _) in allocations]
without_frac(allocations) ==
    [i \in 1..Len(allocations) |->
        [line |-> allocations[i].line, pts |-> allocations[i].pts]]

\* _allocate_points_to_lines from its initial allocation on
allocate_remainder(allocations, pts_total) ==
    without_frac(distribute_remainder(allocations, pts_total - SumPts(allocations, 1)))

\* _allocate_points_to_lines from eligible_total on, for pts_total > 0
allocate_by_proportion(eligible_by_line, pts_total, eligible_total) ==
    IF DSign(eligible_total) <= 0 THEN zero_points(eligible_by_line)
    ELSE allocate_remainder(
             initial_allocations(eligible_by_line, pts_total, eligible_total),
             pts_total)

\* RewardsAllocator._allocate_points_to_lines: a list of (line, pts)
allocate_points_to_lines(eligible_by_line, points_total) ==
    IF AtLeastZero(points_total) = 0 THEN zero_points(eligible_by_line)
    ELSE allocate_by_proportion(eligible_by_line, AtLeastZero(points_total),
                                SumAmounts(eligible_by_line, 1, DZero))

\* RewardsAllocator._line_eligible_amount: the amount of the first line
\* carrying line_id
line_eligible_amount(eligible_by_line, line_id) ==
    LET hits == {i \in 1..Len(eligible_by_line) : eligible_by_line[i].line.line_id = line_id}
    IN  IF hits = {} THEN DZero ELSE eligible_by_line[SetMin(hits)].amt

\* an entry of per_line_points, whatever its points
NotSkipped(line_points) ==
    line_points.pts >= 0

\* if pts <= 0: continue
Positive(line_points) ==
    line_points.pts > 0

\* allocator.allocate_for_order(order, event_id_prefix, idempotency_prefix)
\* called when the clock reads created_at
\* the loop that creates the ledger events, over the entries of
\* per_line_points with pts > 0
earn_events(ord, eligible_by_line, issued, event_id_prefix, idempotency_prefix, created_at) ==
    [i \in 1..Len(issued) |->
        make_earn_event(
            event_id_prefix \o <<":">> \o ord.order_id \o <<":">> \o issued[i].line.line_id,
            ord.member_ref,
            issued[i].pts,
            idempotency_prefix \o <<":">> \o ord.order_id \o <<":">> \o issued[i].line.line_id,
            ord.order_id,
            issued[i].line.line_id,
            created_at,
            DQuantCents(line_eligible_amount(eligible_by_line, issued[i].line.line_id)))]

\* AllocationResult(eligible_spend, points_awarded, events)
AllocationResult(eligible_total, points_total, evs) ==
    [eligible_spend |-> Q2(eligible_total),
     points_awarded |-> points_total,
     events         |-> evs]

\* allocate_for_order from points_total on
allocate_points(ord, eligible_by_line, eligible_total, points_total, event_id_prefix, idempotency_prefix, created_at) ==
    AllocationResult(
        eligible_total, points_total,
        earn_events(ord, eligible_by_line,
                    SelectSeq(allocate_points_to_lines(eligible_by_line, points_total),
                              Positive),
                    event_id_prefix, idempotency_prefix, created_at))

\* allocate_for_order from the second eligible_total on
allocate_total(p, ord, eligible_by_line, eligible_total, event_id_prefix, idempotency_prefix, created_at) ==
    allocate_points(ord, eligible_by_line, eligible_total,
                    points_for_eligible_spend(p, eligible_total),
                    event_id_prefix, idempotency_prefix, created_at)

\* allocate_for_order from the discounted eligible_by_line on
allocate_lines(p, ord, eligible_by_line, event_id_prefix, idempotency_prefix, created_at) ==
    allocate_total(p, ord, eligible_by_line, SumAmounts(eligible_by_line, 1, DZero),
                   event_id_prefix, idempotency_prefix, created_at)

allocate_for_order(p, ord, event_id_prefix, idempotency_prefix, created_at) ==
    allocate_lines(p, ord, discounted_amounts(ord),
                   event_id_prefix, idempotency_prefix, created_at)

\* earned_points_by_line.get(line_id, 0): the points of the earn events
\* that carry line_id; events of another type or without a line are skipped
RECURSIVE earned_points_by_line(_, _, _)
earned_points_by_line(original_earn_events, line_id, i) ==
    IF i > Len(original_earn_events) THEN 0
    ELSE LET e == original_earn_events[i]
         IN  (IF e.event_type = "earn" /\ e.related_line_ref # <<>> /\ e.related_line_ref = line_id
              THEN e.points_delta ELSE 0)
             + earned_points_by_line(original_earn_events, line_id, i + 1)

\* the earn events of line_id whose meta has an "eligible_spend"
with_eligible_spend(original_earn_events, line_id) ==
    {i \in 1..Len(original_earn_events) :
        /\ original_earn_events[i].event_type = "earn"
        /\ original_earn_events[i].related_line_ref # <<>>
        /\ original_earn_events[i].related_line_ref = line_id
        /\ original_earn_events[i].meta.eligible_spend # NoAmount}

\* eligible_spend_by_line[line_id], for a line_id that is in the map: the
\* loop over the events from event i on, with the sum so far
RECURSIVE eligible_spend_by_line(_, _, _, _)
eligible_spend_by_line(original_earn_events, line_id, i, acc) ==
    IF i > Len(original_earn_events) THEN acc
    ELSE eligible_spend_by_line(
             original_earn_events, line_id, i + 1,
             IF i \in with_eligible_spend(original_earn_events, line_id)
             THEN DAdd(acc, DCents(original_earn_events[i].meta.eligible_spend))
             ELSE acc)

\* the two clamps of ratio, at 0.00 and at 1.00
clamp_ratio(ratio) ==
    IF DSign(ratio) < 0 THEN DZero
    ELSE IF DCmp(ratio, DInt(1)) > 0 THEN DInt(1)
    ELSE ratio

\* if pts_to_remove <= 0: pts_to_remove = 1
at_least_one(pts_to_remove) ==
    IF pts_to_remove <= 0 THEN 1 ELSE pts_to_remove

\* the proportional branch: int(D(earned_pts) * ratio), at least 1
proportional_points(earned_pts, refunded_amt, eligible_spend) ==
    at_least_one(DTrunc(DMul(DInt(earned_pts),
                             clamp_ratio(DDiv(refunded_amt, eligible_spend)))))

\* a refund that removes whatever the conversion gives
clamp_nothing(pts_to_remove, earned_pts) ==
    pts_to_remove

\* if pts_to_remove > earned_pts: pts_to_remove = earned_pts
clamp_to_earned(pts_to_remove, earned_pts) ==
    IF pts_to_remove > earned_pts THEN earned_pts ELSE pts_to_remove

\* pts_to_remove for one refunded line with earned_pts > 0
\* the branch on "line_id in eligible_spend_by_line and
\* eligible_spend_by_line[line_id] > 0.00"
convert_refund(p, known, eligible_spend, refunded_amt, earned_pts) ==
    IF known /\ DSign(eligible_spend) > 0
    THEN proportional_points(earned_pts, refunded_amt, eligible_spend)
    ELSE points_for_eligible_spend(p, refunded_amt)

points_to_remove(p, original_earn_events, line_id, refunded_amt, earned_pts) ==
    clamp_to_earned(
        convert_refund(p,
                       with_eligible_spend(original_earn_events, line_id) # {},
                       eligible_spend_by_line(original_earn_events, line_id, 1, DZero),
                       refunded_amt, earned_pts),
        earned_pts)

\* allocator.allocate_refund_adjustment(...) called when the clock reads
\* created_at; refund_line_amounts is the dict as the list of its items
allocate_refund_adjustment(p, order_id, refund_id, member_ref, original_earn_events, refund_line_amounts, event_id_prefix, idempotency_prefix, created_at) ==
    LET earned(item) == earned_points_by_line(original_earn_events, item.line_id, 1)
        Refunded(item) ==
            /\ DSign(safe_money(item.amount)) > 0
            /\ earned(item) > 0
        items == SelectSeq(refund_line_amounts, Refunded)
    IN  [i \in 1..Len(items) |->
            make_refund_event(
                event_id_prefix \o <<":">> \o refund_id \o <<":">> \o items[i].line_id,
                member_ref,
                points_to_remove(p, original_earn_events, items[i].line_id,
                                 safe_money(items[i].amount), earned(items[i])),
                idempotency_prefix \o <<":">> \o refund_id \o <<":">> \o items[i].line_id,
                order_id,
                refund_id,
                items[i].line_id,
                created_at)]

\* --------------------------------------------------------------------------
\* tier_engine.py
\* --------------------------------------------------------------------------
\* TierEngine._normalize_spend(value) for a Decimal value
normalize_spend(value) ==
    IF DSign(value) < 0 THEN DZero ELSE value

\* TierStatus(current_tier, lifetime_spend, next_tier, amount_to_next_tier,
\* is_top_tier) as evaluate builds it
TierStatus(current, spend, next, remaining) ==
    [current_tier        |-> current,
     lifetime_spend      |-> Q2(spend),
     next_tier           |-> next,
     amount_to_next_tier |-> remaining,
     is_top_tier         |-> next = NoTier]

\* evaluate from the normalized spend on
evaluate_spend(p, spend) ==
    TierStatus(tier_for_lifetime_spend(p, spend), spend,
               next_tier(p, spend), amount_to_next_tier(p, spend))

\* engine.evaluate(lifetime_spend): the TierStatus
evaluate(p, lifetime_spend) ==
    evaluate_spend(p, normalize_spend(lifetime_spend))

\* a policy read as if it always allowed downgrades
retained_never(p, downgrade_detected) ==
    FALSE

\* downgrade_detected and not self.policy.allow_downgrades
retained(p, downgrade_detected) ==
    downgrade_detected /\ ~p.allow_downgrades

\* engine.downgrade_check(lifetime_spend_before, lifetime_spend_after): the
\* dict it returns (the reason text apart)
downgrade_result(p, before, after, downgrade_detected) ==
    IF retained(p, downgrade_detected)
    THEN [downgrade_detected |-> TRUE,
          applied            |-> FALSE,
          retained_tier      |-> before.current_tier.key]
    ELSE [downgrade_detected |-> downgrade_detected,
          applied            |-> downgrade_detected,
          new_tier           |-> IF downgrade_detected
                                 THEN after.current_tier.key
                                 ELSE before.current_tier.key]

\* downgrade_check from the two TierStatus on
downgrade_between(p, before, after) ==
    downgrade_result(p, before, after,
                     DCmp(after.current_tier.min_lifetime_spend,
                          before.current_tier.min_lifetime_spend) < 0)

downgrade_check(p, lifetime_spend_before, lifetime_spend_after) ==
    downgrade_between(p, evaluate(p, lifetime_spend_before),
                      evaluate(p, lifetime_spend_after))

\* --------------------------------------------------------------------------
\* loyalty_repository.py.  The table of ledger events is the list of its
\* rows in the order they were inserted; event_id is its primary key and
\* idempotency_key is unique where it is not null.
\* --------------------------------------------------------------------------
\* repo.list_ledger_events(merchant_id, member_ref): ordered by created_at
list_ledger_events(table, member_ref) ==
    LET OfMember(e) == e.member_ref = member_ref
        rows == SelectSeq(table, OfMember)
        n    == Len(rows)
        pos  == [i \in 1..n |->
                    1 + Cardinality({j \in 1..n :
                            \/ rows[j].created_at < rows[i].created_at
                            \/ j < i /\ rows[j].created_at = rows[i].created_at})]
    IN  [p \in 1..n |-> rows[CHOOSE i \in 1..n : pos[i] = p]]

\* repo.list_order_earn_events(merchant_id, member_ref, order_id)
list_order_earn_events(table, member_ref, order_id) ==
    LET Wanted(e) ==
            /\ e.member_ref = member_ref
            /\ e.event_type = "earn"
            /\ e.related_ref = order_id
    IN  SelectSeq(table, Wanted)

\* two rows the constraints of the table do not admit together
SameKey(e, f) ==
    \/ e.event_id = f.event_id
    \/ e.idempotency_key # NoKey /\ e.idempotency_key = f.idempotency_key

\* the insert of the batch raises: a row of it repeats a key of the table or
\* of another row of the batch
InsertRaises(table, batch) ==
    \E i \in 1..Len(batch) :
        \/ \E j \in 1..Len(table) : SameKey(batch[i], table[j])
        \/ \E j \in 1..Len(batch) : j # i /\ SameKey(batch[i], batch[j])

\* the table after repo.append_ledger_events(merchant_id, batch): one insert
\* of all the rows, which adds them all or, when it raises, none
append_ledger_events(table, batch) ==
    IF InsertRaises(table, batch) THEN table ELSE table \o batch

\* append_result["inserted"]
inserted(table, batch) ==
    IF InsertRaises(table, batch) THEN 0 ELSE Len(batch)

\* the total repo.increment_member_lifetime_spend stores and returns
increment_member_lifetime_spend(current, amount) ==
    NonNegative(DAdd(current, amount))

\* --------------------------------------------------------------------------
\* loyalty_service.py
\* --------------------------------------------------------------------------
\* service.get_member_status(merchant_id, member_ref) over the stored rows
\* and the stored lifetime spend of the member
MemberStatus(member_ref, lifetime_spend, status, ledger_state) ==
    [member_ref           |-> member_ref,
     lifetime_spend       |-> Q2(lifetime_spend),
     tier                 |-> status.current_tier,
     next_tier            |-> status.next_tier,
     amount_to_next_tier  |-> status.amount_to_next_tier,
     points_balance       |-> ledger_state.points_balance,
     points_earned_total  |-> ledger_state.total_earned,
     points_removed_total |-> ledger_state.total_spent_or_removed]

get_member_status(p, table, stored_spend, member_ref) ==
    MemberStatus(member_ref,
                 NonNegative(stored_spend),
                 evaluate(p, NonNegative(stored_spend)),
                 reduce(p.allow_negative_points_balance, member_ref,
                        list_ledger_events(table, member_ref)))

\* sum((x for x in norm.values()), D("0.00")): added left to right
RECURSIVE SumRefunded(_, _, _)
SumRefunded(refund_line_amounts, i, acc) ==
    IF i > Len(refund_line_amounts) THEN acc
    ELSE SumRefunded(refund_line_amounts, i + 1,
                     DAdd(acc, refund_line_amounts[i].amount))

\* --------------------------------------------------------------------------
\* cost_model.py
\* --------------------------------------------------------------------------
\* the Decimal n * 10^e of an integer n
DScaled(n, e) ==
    DNorm(n < 0, LOfInt(IF n < 0 THEN -n ELSE n), e)

\* x.quantize(Decimal(10) ** e, rounding=ROUND_HALF_UP)
DQuantize(x, e) ==
    DScaled(DRoundHalfUp([x EXCEPT !.e = x.e - e]), e)

\* _q4(x)
Q4(x) ==
    DQuantize(x, -4)

\* max(x, y) of two Decimals
DMax(x, y) ==
    IF DCmp(y, x) > 0 THEN y ELSE x

\* a per-order cost charged whole to every unit
per_unit_whole(per_order, qty) ==
    per_order

\* a per-order cost allocated per unit
per_unit(per_order, qty) ==
    DDiv(per_order, DInt(qty))

processor_fee_of(inputs) ==
    DAdd(DMul(inputs.retail_price, inputs.payment_processor_rate),
         per_unit(inputs.payment_processor_fixed, inputs.quantity))

\* total_costs: the ten terms added left to right
total_costs_of(inputs) ==
    DAdd(DAdd(DAdd(DAdd(DAdd(DAdd(DAdd(DAdd(DAdd(
        inputs.unit_cost,
        processor_fee_of(inputs)),
        DMul(inputs.retail_price, inputs.platform_fee_rate)),
        per_unit(inputs.shipping_cost_per_order, inputs.quantity)),
        DMul(inputs.retail_price, inputs.tax_rate)),
        DMul(inputs.retail_price, inputs.rewards_rate_of_retail)),
        DMul(inputs.retail_price, inputs.overhead_rate_of_retail)),
        DMul(inputs.retail_price, inputs.risk_buffer_rate_of_retail)),
        per_unit(inputs.points_ops_cost_per_order, inputs.quantity)),
        per_unit(inputs.settlement_cost_per_order, inputs.quantity))

\* net_profit / gross_revenue, 0 when there is no revenue
net_margin_of(gross_revenue, net_profit) ==
    IF DSign(gross_revenue) > 0 THEN DDiv(net_profit, gross_revenue) ELSE DZero

CostBreakdown(inputs, total_costs, net_profit) ==
    [retail_price          |-> Q2(inputs.retail_price),
     gross_revenue         |-> Q2(inputs.retail_price),
     cogs                  |-> Q2(inputs.unit_cost),
     payment_processor_fee |-> Q2(processor_fee_of(inputs)),
     platform_fee          |-> Q2(DMul(inputs.retail_price, inputs.platform_fee_rate)),
     shipping              |-> Q2(per_unit(inputs.shipping_cost_per_order, inputs.quantity)),
     taxes                 |-> Q2(DMul(inputs.retail_price, inputs.tax_rate)),
     rewards_reserve       |-> Q2(DMul(inputs.retail_price, inputs.rewards_rate_of_retail)),
     overhead_reserve      |-> Q2(DMul(inputs.retail_price, inputs.overhead_rate_of_retail)),
     risk_buffer           |-> Q2(DMul(inputs.retail_price, inputs.risk_buffer_rate_of_retail)),
     points_ops            |-> Q2(per_unit(inputs.points_ops_cost_per_order, inputs.quantity)),
     settlement            |-> Q2(per_unit(inputs.settlement_cost_per_order, inputs.quantity)),
     total_costs           |-> Q2(total_costs),
     net_profit            |-> Q2(net_profit),
     net_margin            |-> Q4(net_margin_of(inputs.retail_price, net_profit)),
     quantity              |-> inputs.quantity]

compute_rollups(inputs, total_costs) ==
    CostBreakdown(inputs, total_costs, DSub(inputs.retail_price, total_costs))

\* CostModel.compute(inputs) raises ValueError
compute_raises(inputs) ==
    inputs.quantity < 1

\* CostModel.compute(inputs) for inputs it does not raise on
compute(inputs) ==
    compute_rollups(inputs, total_costs_of(inputs))

\* CostBreakdown.to_dict(): every Decimal as the text of its _q2, that is
\* to the cent, the net margin included
to_dict(b) ==
    [b EXCEPT !.net_margin = Q2(b.net_margin)]

\* --------------------------------------------------------------------------
\* pricing_engine.py
\* --------------------------------------------------------------------------
\* the bound-expansion loop doubles high at most this many times
ExpandLimit == 8

\* max_iterations of recommend_price
MaxIterations == 60

\* the CostInputs margin_at builds from the arguments and the policy
cost_inputs(price, unit_cost, quantity, pricing) ==
    [retail_price               |-> price,
     unit_cost                  |-> unit_cost,
     quantity                   |-> quantity,
     payment_processor_rate     |-> pricing.payment_processor_rate,
     payment_processor_fixed    |-> pricing.payment_processor_fixed,
     platform_fee_rate          |-> pricing.platform_fee_rate,
     shipping_cost_per_order    |-> pricing.shipping_cost_per_order,
     tax_rate                   |-> pricing.tax_rate,
     rewards_rate_of_retail     |-> pricing.rewards_rate_of_retail,
     points_ops_cost_per_order  |-> pricing.points_ops_cost_per_order,
     settlement_cost_per_order  |-> pricing.settlement_cost_per_order,
     overhead_rate_of_retail    |-> pricing.overhead_rate_of_retail,
     risk_buffer_rate_of_retail |-> pricing.risk_buffer_rate_of_retail]

margin_at(price, unit_cost, quantity, pricing) ==
    compute(cost_inputs(price, unit_cost, quantity, pricing)).net_margin

valid_quantity(quantity) ==
    quantity >= 1

valid_unit_cost_always(unit_cost) ==
    TRUE

valid_unit_cost(unit_cost) ==
    DSign(unit_cost) >= 0

valid_target(target_net_margin) ==
    DSign(target_net_margin) >= 0 /\ DCmp(target_net_margin, DInt(1)) < 0

\* recommend_price raises ValueError before it searches
recommend_price_raises(unit_cost, quantity, pricing) ==
    \/ ~valid_quantity(quantity)
    \/ ~valid_unit_cost(unit_cost)
    \/ ~valid_target(pricing.target_net_margin)

\* starting_price when the caller gives none
starting_price_for(unit_cost, pricing) ==
    DMul(DDiv(unit_cost, DSub(DInt(1), pricing.target_net_margin)), DCents(110))

search_low(unit_cost) ==
    DMax(DCents(1), unit_cost)

search_high(starting_price, low) ==
    DMax(DMul(starting_price, DInt(5)), DAdd(low, DInt(1)))

\* the condition of the while loop
expand_more(m_high, target, expand_guard) ==
    DCmp(m_high, target) < 0 /\ expand_guard < ExpandLimit

midpoint(low, high) ==
    DDiv(DAdd(low, high), DInt(2))

bisect_stalls(frame, mid, m_mid, target) ==
    IF DCmp(m_mid, target) >= 0
    THEN [frame EXCEPT !.best = mid, !.high = mid]
    ELSE frame

\* the body of the for loop on the local variables low, high and best of
\* the frame
bisect(frame, mid, m_mid, target) ==
    IF DCmp(m_mid, target) >= 0
    THEN [frame EXCEPT !.best = mid, !.high = mid]
    ELSE [frame EXCEPT !.low = mid]

\* (price / step).to_integral_value(ROUND_HALF_UP) * step, quantized to step
round_to_step(price, step) ==
    DQuantize(DMul(DInt(DRoundHalfUp(DDiv(price, step))), step), step.e)

\* the *.99 below the nearest whole amount, when that is above 0
snap_to_99(rounded, candidate) ==
    IF DSign(candidate) > 0 THEN Q2(candidate) ELSE Q2(rounded)

psychological(pricing, rounded) ==
    IF pricing.psychological_pricing
    THEN snap_to_99(rounded, DSub(DInt(DRoundHalfUp(rounded)), DCents(1)))
    ELSE Q2(rounded)

round_price(price, pricing) ==
    IF DSign(pricing.price_rounding) <= 0 THEN Q2(price)
    ELSE psychological(pricing, round_to_step(price, pricing.price_rounding))

\* points at 1 point = 0.01 of the rewards reserve of the breakdown
points_of(breakdown) ==
    DRoundHalfUp(DDiv(breakdown.rewards_reserve, DCents(1)))

PricingResult(best, breakdown) ==
    [retail_price   |-> Q2(best),
     points_awarded |-> points_of(breakdown),
     cost_breakdown |-> to_dict(breakdown)]

\* recommend_price from the final breakdown on: best is the rounded price
price_found(best, unit_cost, quantity, pricing) ==
    PricingResult(best, compute(cost_inputs(best, unit_cost, quantity, pricing)))

\* --------------------------------------------------------------------------
\* State
\* --------------------------------------------------------------------------
VARIABLES
    ledger,     \* the PointsLedger: [allow_negative_balance]
    policy,     \* the LoyaltyPolicy in force
    order,      \* the OrderSnapshot being awarded
    now,        \* the clock read by _now_utc_iso, in seconds
    runs,       \* the AllocationResults returned so far, oldest first
    events,     \* the ledger events on record, in the order they were added
    call,       \* the most recent call: its name, arguments and return value
    lifetime,   \* the stored lifetime spend of each member, in cents
    reported,   \* the tiers get_member_status has reported for each member
    deliveries, \* how many more times the upstream will deliver the order
    pending     \* the returned events not yet on record: <<run, index>>

vars ==
    <<ledger, policy, order, now, runs, events, call, lifetime, reported, deliveries, pending>>

NoCall ==
    [op |-> "none"]

Members ==
    {"m1", "m2"}

\* --------------------------------------------------------------------------
\* SpecLedger: PointsLedger.reduce over every short list of events
\* --------------------------------------------------------------------------
MaxEvents == 2
MaxDelta == 1
MaxTime == 2

\* points_delta is a signed integer other than 0
Deltas ==
    {d \in (-MaxDelta)..MaxDelta : d # 0}

LedgerEventUniverse ==
    {LedgerEvent(id, m, ty, d, k, <<>>, <<>>, t, Meta(NoAmount, <<>>)) :
        id \in {<<"e1">>, <<"e2">>}, m \in Members, ty \in EventTypes,
        d \in Deltas, k \in {NoKey, <<"k1">>}, t \in 1..MaxTime}

InitLedger ==
    /\ ledger \in [allow_negative_balance : BOOLEAN]
    /\ events = <<>>
    /\ call = NoCall
    /\ policy = <<>>
    /\ order = <<>>
    /\ now = 0
    /\ runs = <<>>
    /\ lifetime = <<>>
    /\ reported = <<>>
    /\ deliveries = 0
    /\ pending = {}

\* a caller puts one more LedgerEvent on the list it will reduce
NewLedgerEvent(e) ==
    /\ Len(events) < MaxEvents
    /\ events' = Append(events, e)
    /\ call' = NoCall
    /\ UNCHANGED <<ledger, policy, order, now, runs, lifetime, reported, deliveries, pending>>

\* ledger.reduce(member_ref, events)
Reduce(member_ref) ==
    /\ call' = [op |-> "reduce", member_ref |-> member_ref,
                state |-> reduce(ledger.allow_negative_balance, member_ref, events)]
    /\ UNCHANGED <<ledger, policy, order, now, runs, events, lifetime, reported, deliveries, pending>>

NextLedger ==
    \/ \E e \in LedgerEventUniverse : NewLedgerEvent(e)
    \/ \E m \in Members : Reduce(m)

SpecLedger ==
    InitLedger /\ [][NextLedger]_vars

\* C1: reducing a list followed by itself returns the same LedgerState as
\* reducing the list once, for every member and every list.
C1_ReplayIdempotent ==
    call.op = "reduce" =>
        reduce(ledger.allow_negative_balance, call.member_ref, events \o events)
            = call.state

\* C1 witness: a reduce that applied two events of a list returned a positive
\* balance, and the replayed list holds each of them twice.
C1_Witness ==
    /\ call.op = "reduce"
    /\ Len(call.state.applied_event_ids) = 2
    /\ call.state.points_balance > 0
    /\ Len(events \o events) = 4

\* C2: appending to a history H an event of the member whose event_id, or
\* whose non-empty idempotency_key, reduce(H) has already applied leaves the
\* derived state as it was, whatever the created_at and points_delta of the
\* appended event.
C2_FirstOccurrenceWins ==
    \A m \in Members : \A e \in LedgerEventUniverse :
        LET before == reduce(ledger.allow_negative_balance, m, events)
            seen   == \/ \E i \in 1..Len(before.applied_event_ids) :
                             before.applied_event_ids[i] = e.event_id
                      \/ /\ e.idempotency_key # NoKey
                         /\ \E i \in 1..Len(before.applied_idempotency_keys) :
                               before.applied_idempotency_keys[i] = e.idempotency_key
        IN  (e.member_ref = m /\ seen) =>
                reduce(ledger.allow_negative_balance, m, Append(events, e)) = before

\* C3: a ledger built with allow_negative_balance = false never returns a
\* negative points_balance.
C3_NonNegativeFloor ==
    (call.op = "reduce" /\ ~ledger.allow_negative_balance) =>
        call.state.points_balance >= 0

\* C3 witness: the removals applied exceed the points earned, and the
\* balance returned is 0.
C3_Witness ==
    /\ call.op = "reduce"
    /\ ~ledger.allow_negative_balance
    /\ call.state.total_spent_or_removed > call.state.total_earned
    /\ call.state.points_balance = 0

\* --------------------------------------------------------------------------
\* SpecAlloc: RewardsAllocator.allocate_for_order over every small order
\* --------------------------------------------------------------------------
MaxLines == 3
MaxQty == 2
UnitPrice == 500
Discount == 250

\* 0.2 points for each unit of currency: 0.2000 of the spend at 1.00 point
AllocPolicies ==
    {[tiers |-> default_tiers, points_per_currency_unit |-> DCents(100),
      earn_rate_of_eligible_spend |-> DRate(2000), rounding |-> r,
      allow_downgrades |-> FALSE, allow_negative_points_balance |-> FALSE] :
        r \in {"nearest", "down"}}

AllocLines ==
    {OrderLine(id, DCents(UnitPrice), q, el) :
        id \in {<<"L1">>, <<"L2">>}, q \in 1..MaxQty, el \in BOOLEAN}

AllocOrders ==
    {[order_id |-> <<"o1">>, member_ref |-> "m1", lines |-> ls, discounts_total |-> DCents(d)] :
        ls \in UNION {[1..n -> AllocLines] : n \in 0..MaxLines}, d \in {0, Discount}}

InitAlloc ==
    /\ policy \in AllocPolicies
    /\ ValidPolicy(policy)
    /\ order \in AllocOrders
    /\ ledger = [allow_negative_balance |-> policy.allow_negative_points_balance]
    /\ now = 1
    /\ runs = <<>>
    /\ events = <<>>
    /\ call = NoCall
    /\ lifetime = <<>>
    /\ reported = <<>>
    /\ deliveries = 1
    /\ pending = {}

\* one delivery of the order: allocator.allocate_for_order(order, "earn", "k1")
AllocateForOrder ==
    /\ deliveries > 0
    /\ deliveries' = deliveries - 1
    /\ LET result == allocate_for_order(policy, order, <<"earn">>, <<"k1">>, now)
       IN  /\ runs' = Append(runs, result)
           /\ call' = [op |-> "allocate_for_order", result |-> result]
           /\ pending' = pending \cup {<<Len(runs) + 1, i>> : i \in 1..Len(result.events)}
    /\ UNCHANGED <<ledger, policy, order, now, events, lifetime, reported>>

NextAlloc ==
    AllocateForOrder

SpecAlloc ==
    InitAlloc /\ [][NextAlloc]_vars

\* sum of points_delta over a list of events
RECURSIVE SumDeltas(_, _)
SumDeltas(evs, i) ==
    IF i > Len(evs) THEN 0 ELSE evs[i].points_delta + SumDeltas(evs, i + 1)

\* C4: the points_delta of the earn events allocate_for_order returns add up
\* to points_awarded, which is points_for_eligible_spend of the sum of the
\* eligible line amounts after the discount.
C4_Conservation ==
    call.op = "allocate_for_order" =>
        /\ SumDeltas(call.result.events, 1) = call.result.points_awarded
        /\ call.result.points_awarded =
              points_for_eligible_spend(policy, SumAmounts(discounted_amounts(order), 1, DZero))

\* C4 witness: a discounted order was awarded points on two different lines
\* that the floors of the proportional shares do not use up, so that the
\* remainder step handed out the rest.
C4_Witness ==
    /\ call.op = "allocate_for_order"
    /\ order.discounts_total # DZero
    /\ Len(call.result.events) = 2
    /\ call.result.events[1].event_id # call.result.events[2].event_id
    /\ LET amts == discounted_amounts(order)
       IN  SumPts(initial_allocations(amts, call.result.points_awarded,
                                      SumAmounts(amts, 1, DZero)), 1)
               < call.result.points_awarded

\* --------------------------------------------------------------------------
\* SpecRetry: an order delivered MaxRuns times; the events each run returns
\* are put on record one by one, in any order, and the record is reduced
\* --------------------------------------------------------------------------
MaxRuns == 2
MaxRetryLines == 2

RetryLines ==
    {OrderLine(id, DCents(UnitPrice), q, TRUE) : id \in {<<"L1">>, <<"L2">>}, q \in 1..MaxQty}

RetryOrders ==
    {[order_id |-> <<"o1">>, member_ref |-> "m1", lines |-> ls, discounts_total |-> DZero] :
        ls \in UNION {[1..n -> RetryLines] : n \in 0..MaxRetryLines}}

InitRetry ==
    /\ policy \in {p \in AllocPolicies : p.rounding = "nearest"}
    /\ order \in RetryOrders
    /\ ledger = [allow_negative_balance |-> policy.allow_negative_points_balance]
    /\ now = 1
    /\ runs = <<>>
    /\ events = <<>>
    /\ call = NoCall
    /\ lifetime = <<>>
    /\ reported = <<>>
    /\ deliveries = MaxRuns
    /\ pending = {}

\* a second passes
Tick ==
    /\ now < MaxTime
    /\ now' = now + 1
    /\ UNCHANGED <<ledger, policy, order, runs, events, call, lifetime, reported, deliveries, pending>>

\* event i of run r is put on record
RecordEvent(r, i) ==
    /\ <<r, i>> \in pending
    /\ pending' = pending \ {<<r, i>>}
    /\ events' = Append(events, runs[r].events[i])
    /\ call' = NoCall
    /\ UNCHANGED <<ledger, policy, order, now, runs, lifetime, reported, deliveries>>

NextRetry ==
    \/ AllocateForOrder
    \/ Tick
    \/ \E r \in 1..MaxRuns : \E i \in 1..MaxRetryLines : RecordEvent(r, i)
    \/ \E m \in Members : Reduce(m)

SpecRetry ==
    InitRetry /\ [][NextRetry]_vars

\* C10: once an order has been allocated two or more times and every
\* returned earn event is on record, in whatever order they were put there,
\* reduce gives the points_balance and total_earned of a single run.
C10_RetriedAwardsCountOnce ==
    (/\ call.op = "reduce"
     /\ call.member_ref = order.member_ref
     /\ Len(runs) >= 2
     /\ deliveries = 0
     /\ pending = {}) =>
        LET single == reduce(ledger.allow_negative_balance, order.member_ref, runs[1].events)
        IN  /\ call.state.points_balance = single.points_balance
            /\ call.state.total_earned = single.total_earned

\* --------------------------------------------------------------------------
\* SpecRefund: allocate_refund_adjustment over short lists of original events
\* and every small refund request
\* --------------------------------------------------------------------------
MaxOriginal == 2
EarnedEligible == 1000
RefundSmall == 500
RefundLarge == 2000

\* what an original event may be: its type and line, its points, and the
\* "eligible_spend" of its meta
OriginalShapes ==
    [kind : {<<"earn", <<"L1">>>>, <<"earn", <<"L2">>>>, <<"earn", <<>>>>, <<"refund", <<"L1">>>>},
     points_delta : {-1, 3},
     eligible_spend : {NoAmount, 0, EarnedEligible}]

OriginalEventLists ==
    UNION {{[i \in 1..n |->
                LedgerEvent(IF i = 1 THEN <<"e1">> ELSE <<"e2">>, "m1", f[i].kind[1],
                            f[i].points_delta, NoKey, <<"o1">>, f[i].kind[2], 1,
                            Meta(f[i].eligible_spend, <<>>))] :
             f \in [1..n -> OriginalShapes]} : n \in 0..MaxOriginal}

RefundAmounts ==
    {DCents(-RefundSmall), DZero, DCents(RefundSmall), DCents(RefundLarge)}

\* refund_line_amounts: a dict, so no line id twice
RefundRequests ==
    {req \in UNION {[1..n -> [line_id : {<<"L1">>, <<"L2">>}, amount : RefundAmounts]] : n \in 0..2} :
        \A i, j \in 1..Len(req) : req[i].line_id = req[j].line_id => i = j}

InitRefund ==
    /\ policy \in AllocPolicies
    /\ ledger = [allow_negative_balance |-> policy.allow_negative_points_balance]
    /\ events \in OriginalEventLists
    /\ order = <<>>
    /\ now = 2
    /\ runs = <<>>
    /\ call = NoCall
    /\ lifetime = <<>>
    /\ reported = <<>>
    /\ deliveries = 1
    /\ pending = {}

\* the refund is delivered and allocate_refund_adjustment is called with
\* the events on record as original_earn_events
AllocateRefundAdjustment ==
    /\ deliveries > 0
    /\ deliveries' = deliveries - 1
    /\ \E req \in RefundRequests :
          call' = [op |-> "allocate_refund_adjustment",
                   refund_line_amounts |-> req,
                   result |-> allocate_refund_adjustment(policy, <<"o1">>, <<"r1">>, "m1", events,
                                                         req, <<"refund">>, <<"k1">>, now)]
    /\ UNCHANGED <<ledger, policy, order, now, runs, events, lifetime, reported, pending>>

NextRefund ==
    AllocateRefundAdjustment

SpecRefund ==
    InitRefund /\ [][NextRefund]_vars

\* the sum of points_delta of the earn events of a line
EarnedOnLine(evs, line_id) ==
    LET OfLine(e) == e.event_type = "earn" /\ e.related_line_ref = line_id
    IN  SumDeltas(SelectSeq(evs, OfLine), 1)

\* C5: in one call of allocate_refund_adjustment, the refund event emitted
\* for a line of refund_line_amounts removes at most the points the line's
\* original earn events add up to, and a line with no earned points or with
\* a refunded amount <= 0 gets no refund event.
C5_RefundClampedToEarned ==
    call.op = "allocate_refund_adjustment" =>
        \A i \in 1..Len(call.refund_line_amounts) :
            LET item    == call.refund_line_amounts[i]
                earned  == EarnedOnLine(events, item.line_id)
                emitted == {k \in 1..Len(call.result) :
                               call.result[k].related_line_ref = item.line_id}
            IN  /\ \A k \in emitted :
                      /\ call.result[k].event_type = "refund"
                      /\ call.result[k].points_delta <= 0
                      /\ -call.result[k].points_delta <= earned
                /\ Cardinality(emitted) <= 1
                /\ (earned <= 0 \/ DCmp(item.amount, DZero) <= 0) => emitted = {}

\* C5 witness: a refund whose conversion to points came out above what the
\* line earned, and whose event removes exactly the earned points
C5_Witness ==
    /\ call.op = "allocate_refund_adjustment"
    /\ \E i \in 1..Len(call.refund_line_amounts) : \E k \in 1..Len(call.result) :
          LET item == call.refund_line_amounts[i]
          IN  /\ call.result[k].related_line_ref = item.line_id
              /\ with_eligible_spend(events, item.line_id) = {}
              /\ points_for_eligible_spend(policy, item.amount) > EarnedOnLine(events, item.line_id)
              /\ -call.result[k].points_delta = EarnedOnLine(events, item.line_id)
              /\ EarnedOnLine(events, item.line_id) > 0

\* --------------------------------------------------------------------------
\* SpecTier: tier_for_lifetime_spend and downgrade_check under every small
\* valid policy, its tiers listed in any order; a behaviour is one
\* downgrade_check or up to MaxCalls calls of tier_for_lifetime_spend
\* --------------------------------------------------------------------------
MaxTiers == 3
MaxCalls == 2
TierStep == 1000

TierKeys ==
    <<"bronze", "silver", "gold", "platinum">>

\* thresholds 0.00, 10.00, 20.00, ...
TierThresholds ==
    {DCents(k * TierStep) : k \in 0..(MaxTiers - 1)}

TierPolicies ==
    {p \in {[tiers |-> [i \in 1..n |-> Tier(TierKeys[i], th[i])],
             points_per_currency_unit |-> DCents(100),
             earn_rate_of_eligible_spend |-> DRate(2000), rounding |-> "nearest",
             allow_downgrades |-> d, allow_negative_points_balance |-> FALSE] :
                n \in 1..MaxTiers, th \in [1..MaxTiers -> TierThresholds], d \in BOOLEAN} :
        ValidPolicy(p)}

\* spends below, on and between the thresholds: -5.00, 0.00, 5.00, 10.00, ...
TierSpends ==
    {DCents(k * (TierStep \div 2)) : k \in -1..(2 * MaxTiers - 1)}

InitTier ==
    /\ policy \in TierPolicies
    /\ ledger = [allow_negative_balance |-> policy.allow_negative_points_balance]
    /\ events = <<>>
    /\ order = <<>>
    /\ now = 1
    /\ runs = <<>>
    /\ call = NoCall
    /\ lifetime = <<>>
    /\ reported = <<>>
    /\ deliveries = 0
    /\ pending = {}

\* policy.tier_for_lifetime_spend(lifetime_spend), asked up to MaxCalls
\* times of one policy; runs keeps the answers
TierForLifetimeSpend(lifetime_spend) ==
    /\ Len(runs) < MaxCalls
    /\ call.op # "downgrade_check"
    /\ LET tier == tier_for_lifetime_spend(policy, lifetime_spend)
       IN  /\ runs' = Append(runs, [lifetime_spend |-> lifetime_spend, tier |-> tier])
           /\ call' = [op |-> "tier_for_lifetime_spend", lifetime_spend |-> lifetime_spend,
                       result |-> tier]
    /\ UNCHANGED <<ledger, policy, order, now, events, lifetime, reported, deliveries, pending>>

\* engine.downgrade_check(...), asked once of a fresh engine
DowngradeCheck(lifetime_spend_before, lifetime_spend_after) ==
    /\ call = NoCall
    /\ call' = [op |-> "downgrade_check",
                lifetime_spend_before |-> lifetime_spend_before,
                lifetime_spend_after |-> lifetime_spend_after,
                result |-> downgrade_check(policy, lifetime_spend_before, lifetime_spend_after)]
    /\ UNCHANGED <<ledger, policy, order, now, runs, events, lifetime, reported, deliveries, pending>>

NextTier ==
    \/ \E s \in TierSpends : TierForLifetimeSpend(s)
    \/ \E b \in TierSpends : \E a \in TierSpends : DowngradeCheck(b, a)

SpecTier ==
    InitTier /\ [][NextTier]_vars

\* C7: under a valid policy, of two spends (negative ones included) the
\* lower never gets a tier with a higher threshold than the other:
\* spend1 <= spend2 implies that the threshold of tier_for_lifetime_spend(spend1)
\* is at most that of tier_for_lifetime_spend(spend2).
C7_TierMonotone ==
    \A i \in 1..Len(runs) : \A j \in 1..Len(runs) :
        DCmp(runs[i].lifetime_spend, runs[j].lifetime_spend) <= 0 =>
            DCmp(runs[i].tier.min_lifetime_spend, runs[j].tier.min_lifetime_spend) <= 0

\* C7 witness: under a policy that lists a higher tier before a lower one,
\* a negative spend got the lowest tier and a larger spend a higher tier
C7_Witness ==
    /\ Len(runs) = 2
    /\ Len(policy.tiers) >= 2
    /\ DCmp(policy.tiers[1].min_lifetime_spend, policy.tiers[2].min_lifetime_spend) > 0
    /\ runs[1].lifetime_spend.neg
    /\ runs[1].tier.min_lifetime_spend = DZero
    /\ DCmp(runs[2].tier.min_lifetime_spend, DZero) > 0

\* C8: downgrade_check never applies a downgrade silently. When the tier
\* after has a lower threshold than the tier before and allow_downgrades is
\* false it returns downgrade_detected = true, applied = false and
\* retained_tier = the key of the tier before; applied = true comes only with
\* a detected downgrade and allow_downgrades true; when the threshold after is
\* not lower, downgrade_detected and applied are both false.
C8_DowngradeNeverSilent ==
    call.op = "downgrade_check" =>
        LET before == tier_for_lifetime_spend(policy, call.lifetime_spend_before)
            after  == tier_for_lifetime_spend(policy, call.lifetime_spend_after)
            lower  == DCmp(after.min_lifetime_spend, before.min_lifetime_spend) < 0
            r      == call.result
        IN  /\ (lower /\ ~policy.allow_downgrades) =>
                  /\ r.downgrade_detected
                  /\ ~r.applied
                  /\ "retained_tier" \in DOMAIN r
                  /\ r.retained_tier = before.key
            /\ r.applied => (r.downgrade_detected /\ lower /\ policy.allow_downgrades)
            /\ ~lower => (~r.downgrade_detected /\ ~r.applied)

\* C8 witness: a spend that fell from a higher tier to a lower one under a
\* policy without downgrades, and the check that retained the higher tier
C8_Witness ==
    /\ call.op = "downgrade_check"
    /\ ~policy.allow_downgrades
    /\ DCmp(call.lifetime_spend_after, call.lifetime_spend_before) < 0
    /\ call.result.downgrade_detected
    /\ ~call.result.applied
    /\ "retained_tier" \in DOMAIN call.result
    /\ call.result.retained_tier # tier_for_lifetime_spend(policy, call.lifetime_spend_after).key

\* --------------------------------------------------------------------------
\* Spec: the LoyaltyService over its repository, serving one order of one
\* member: the order is delivered up to MaxRuns times, refunds of it arrive
\* under two refund ids, and the status of the member is read
\* --------------------------------------------------------------------------
OrderPrice == 1000
SilverFrom == 1000
ExplicitIncrement == 500

\* tiers that an order of a few units of currency can cross; downgrades off
ServicePolicy ==
    [tiers |-> <<Tier("bronze", DZero), Tier("silver", DCents(SilverFrom))>>,
     points_per_currency_unit |-> DCents(100),
     earn_rate_of_eligible_spend |-> DRate(2000), rounding |-> "nearest",
     allow_downgrades |-> FALSE, allow_negative_points_balance |-> FALSE]

ServiceOrder ==
    [order_id |-> <<"o1">>, member_ref |-> "m1",
     lines |-> <<OrderLine(<<"L1">>, DCents(OrderPrice), 1, TRUE)>>,
     discounts_total |-> DZero]

\* lifetime_spend_increment=None
NoIncrement ==
    [none |-> TRUE]

Increments ==
    {NoIncrement, DCents(ExplicitIncrement)}

\* refunds of half of the line and of all of it
ServiceRefunds ==
    {<<[line_id |-> <<"L1">>, amount |-> DCents(a)]>> : a \in {OrderPrice \div 2, OrderPrice}}

NoReport ==
    [tier |-> NoTier, before |-> NoTier]

\* the report of one more tier: before is the highest tier reported earlier
Report(old, tier) ==
    [tier   |-> tier,
     before |-> IF DCmp(old.tier.min_lifetime_spend, old.before.min_lifetime_spend) > 0
                THEN old.tier ELSE old.before]

Init ==
    /\ policy = ServicePolicy
    /\ ledger = [allow_negative_balance |-> policy.allow_negative_points_balance]
    /\ order = ServiceOrder
    /\ now = 1
    /\ runs = <<>>
    /\ events = <<>>
    /\ call = NoCall
    /\ lifetime = [m \in Members |-> DZero]
    /\ reported = [m \in Members |-> NoReport]
    /\ deliveries = MaxRuns
    /\ pending = {}

\* service.get_member_status(merchant_id, member_ref)
StatusReturned(member_ref, member_status) ==
    /\ call' = [op |-> "get_member_status", member_status |-> member_status]
    /\ reported' = [reported EXCEPT ![member_ref] = Report(@, member_status.tier)]

GetMemberStatus(member_ref) ==
    /\ StatusReturned(member_ref,
                      get_member_status(policy, events, lifetime[member_ref], member_ref))
    /\ UNCHANGED <<ledger, policy, order, now, runs, events, lifetime, deliveries, pending>>

\* service.award_for_order(...) for one delivery of the order, with the
\* default prefixes
\* the return of award_for_order and what it leaves stored
AwardReturned(allocation, table, new_total, member_status) ==
    /\ runs' = Append(runs, allocation)
    /\ events' = table
    /\ lifetime' = [lifetime EXCEPT ![order.member_ref] = new_total]
    /\ reported' = [reported EXCEPT ![order.member_ref] = Report(@, member_status.tier)]
    /\ call' = [op |-> "award_for_order",
                awarded_points_total |-> allocation.points_awarded,
                events_written |-> Len(allocation.events),
                inserted |-> inserted(events, allocation.events),
                lifetime_spend_total |-> Q2(new_total),
                member_status |-> member_status]

\* award_for_order from the post-status snapshot on
AwardStored(allocation, table, new_total) ==
    AwardReturned(allocation, table, new_total,
                  get_member_status(policy, table, new_total, order.member_ref))

\* award_for_order from "Persist events" on
AwardAllocated(allocation, lifetime_spend_increment) ==
    AwardStored(allocation,
                append_ledger_events(events, allocation.events),
                increment_member_lifetime_spend(
                    lifetime[order.member_ref],
                    IF lifetime_spend_increment = NoIncrement
                    THEN allocation.eligible_spend
                    ELSE lifetime_spend_increment))

AwardForOrder(lifetime_spend_increment) ==
    /\ deliveries > 0
    /\ deliveries' = deliveries - 1
    /\ AwardAllocated(allocate_for_order(policy, order, <<"earn">>,
                                         <<"idem", ":", "earn">>, now),
                      lifetime_spend_increment)
    /\ UNCHANGED <<ledger, policy, order, now, pending>>

\* service.adjust_for_refund(...) for a refund of the order, with the default
\* prefixes
\* the return of adjust_for_refund and what it leaves stored
RefundReturned(refund_id, refund_events, table, spend_delta, new_total, member_status) ==
    /\ events' = table
    /\ lifetime' = [lifetime EXCEPT ![order.member_ref] = new_total]
    /\ reported' = [reported EXCEPT ![order.member_ref] = Report(@, member_status.tier)]
    /\ call' = [op |-> "adjust_for_refund",
                refund_id |-> refund_id,
                refund_events_written |-> Len(refund_events),
                points_removed_total |-> -SumDeltas(refund_events, 1),
                inserted |-> inserted(events, refund_events),
                lifetime_spend_delta |-> Q2(spend_delta),
                member_status |-> member_status]

\* adjust_for_refund from the status snapshot on
RefundStored(refund_id, refund_events, table, spend_delta, new_total) ==
    RefundReturned(refund_id, refund_events, table, spend_delta, new_total,
                   get_member_status(policy, table, new_total, order.member_ref))

\* adjust_for_refund from the append on, with the spend_delta it will apply
RefundAppended(refund_id, refund_events, spend_delta, decrement_lifetime_spend) ==
    RefundStored(refund_id, refund_events,
                 append_ledger_events(events, refund_events),
                 spend_delta,
                 IF decrement_lifetime_spend
                 THEN increment_member_lifetime_spend(lifetime[order.member_ref],
                                                      spend_delta)
                 ELSE lifetime[order.member_ref])

\* adjust_for_refund from the refund events on
RefundAllocated(refund_id, refund_line_amounts, decrement_lifetime_spend, refund_events) ==
    RefundAppended(refund_id, refund_events,
                   IF decrement_lifetime_spend
                   THEN DNeg(SumRefunded(refund_line_amounts, 1, DZero))
                   ELSE DZero,
                   decrement_lifetime_spend)

AdjustForRefund(refund_id, refund_line_amounts, decrement_lifetime_spend) ==
    /\ RefundAllocated(
           refund_id, refund_line_amounts, decrement_lifetime_spend,
           allocate_refund_adjustment(
               policy, order.order_id, refund_id, order.member_ref,
               list_order_earn_events(events, order.member_ref, order.order_id),
               refund_line_amounts, <<"refund">>, <<"idem", ":", "refund">>, now))
    /\ UNCHANGED <<ledger, policy, order, now, runs, deliveries, pending>>

Next ==
    \/ \E inc \in Increments : AwardForOrder(inc)
    \/ \E refund_id \in {<<"r1">>, <<"r2">>} : \E req \in ServiceRefunds : \E dec \in BOOLEAN :
          AdjustForRefund(refund_id, req, dec)
    \/ GetMemberStatus(order.member_ref)

Spec ==
    Init /\ [][Next]_vars

\* the points the refund events on record remove from a line of the order
RemovedFromLine(line_id) ==
    LET OfLine(e) ==
            /\ e.event_type = "refund"
            /\ e.meta.order_id = order.order_id
            /\ e.related_line_ref = line_id
    IN  -SumDeltas(SelectSeq(events, OfLine), 1)

\* the points the earn events on record give a line of the order
EarnedByLine(line_id) ==
    LET OfLine(e) ==
            /\ e.event_type = "earn"
            /\ e.related_ref = order.order_id
            /\ e.related_line_ref = line_id
    IN  SumDeltas(SelectSeq(events, OfLine), 1)

\* C6: over any sequence of refund adjustments of an order under distinct
\* refund ids, the points removed from a line, summed over all the refund
\* events appended for it, never exceed the points the line earned.
C6_NeverRefundedBeyondEarned ==
    \A i \in 1..Len(order.lines) :
        RemovedFromLine(order.lines[i].line_id) <= EarnedByLine(order.lines[i].line_id)

\* C9: with allow_downgrades false, the tier that get_member_status reports
\* for a member never has a lower threshold than a tier reported for that
\* member earlier, whatever award_for_order and adjust_for_refund calls come
\* in between.
C9_ReportedTierNeverLower ==
    ~policy.allow_downgrades =>
        \A m \in Members :
            DCmp(reported[m].tier.min_lifetime_spend,
                 reported[m].before.min_lifetime_spend) >= 0

\* --------------------------------------------------------------------------
\* SpecPricing: one call of PricingEngine.recommend_price, a step per
\* iteration of its two loops, or one direct call of CostModel.compute.
\* policy is the PricingPolicy, order the item priced (unit_cost, quantity),
\* call the frame of the call: its position pc and its local variables,
\* now the number of steps taken.
\* --------------------------------------------------------------------------
\* PricingPolicy(): the defaults of the dataclass
default_pricing ==
    [target_net_margin          |-> DCents(35),
     rewards_rate_of_retail     |-> DCents(2),
     platform_fee_rate          |-> DRate(200),
     overhead_rate_of_retail    |-> DZero,
     risk_buffer_rate_of_retail |-> DZero,
     payment_processor_rate     |-> DRate(290),
     payment_processor_fixed    |-> DCents(30),
     tax_rate                   |-> DZero,
     shipping_cost_per_order    |-> DZero,
     points_ops_cost_per_order  |-> DZero,
     settlement_cost_per_order  |-> DZero,
     price_rounding             |-> DCents(1),
     psychological_pricing      |-> FALSE]

\* target_net_margin: below 0, attainable, out of reach of the rates, and 1
PricingTargets ==
    {DCents(-10), DCents(35), DCents(95), DInt(1)}

PricingPolicies ==
    {[default_pricing EXCEPT !.target_net_margin = t, !.psychological_pricing = s] :
        t \in PricingTargets, s \in BOOLEAN}

UnitCosts ==
    {DCents(-100), DZero, DCents(500)}

Quantities ==
    {0, 1, 35}

PricedItems ==
    [unit_cost : UnitCosts, quantity : Quantities]

\* retail prices CostModel.compute is asked about directly
ComputePrices ==
    {DZero, DCents(912)}

InitPricing ==
    /\ policy \in PricingPolicies
    /\ order \in PricedItems
    /\ call = NoCall
    /\ ledger = [allow_negative_balance |-> FALSE]
    /\ events = <<>>
    /\ now = 0
    /\ runs = <<>>
    /\ lifetime = <<>>
    /\ reported = <<>>
    /\ deliveries = 0
    /\ pending = {}

\* the frame when the while loop is reached
search_from(low, high, unit_cost, quantity, pricing) ==
    [op           |-> "recommend_price",
     pc           |-> "expand",
     low          |-> low,
     high         |-> high,
     m_high       |-> margin_at(high, unit_cost, quantity, pricing),
     expand_guard |-> 0]

search_above(low, unit_cost, quantity, pricing) ==
    search_from(low, search_high(starting_price_for(unit_cost, pricing), low),
                unit_cost, quantity, pricing)

\* recommend_price(unit_cost=..., quantity=..., policy=...) up to the while
\* loop
RecommendPrice ==
    /\ call = NoCall
    /\ call' = IF recommend_price_raises(order.unit_cost, order.quantity, policy)
               THEN [op |-> "recommend_price", pc |-> "raised", error |-> "ValueError"]
               ELSE search_above(search_low(order.unit_cost),
                                 order.unit_cost, order.quantity, policy)
    /\ now' = now + 1
    /\ UNCHANGED <<ledger, policy, order, runs, events, lifetime, reported, deliveries, pending>>

\* one iteration of the while loop
Expand ==
    /\ call.op = "recommend_price" /\ call.pc = "expand"
    /\ expand_more(call.m_high, policy.target_net_margin, call.expand_guard)
    /\ call' = [call EXCEPT !.high = DMul(@, DInt(2)),
                            !.m_high = margin_at(DMul(call.high, DInt(2)),
                                                 order.unit_cost, order.quantity, policy),
                            !.expand_guard = @ + 1]
    /\ now' = now + 1
    /\ UNCHANGED <<ledger, policy, order, runs, events, lifetime, reported, deliveries, pending>>

\* the while loop is left: best = high
Expanded ==
    /\ call.op = "recommend_price" /\ call.pc = "expand"
    /\ ~expand_more(call.m_high, policy.target_net_margin, call.expand_guard)
    /\ call' = [op           |-> "recommend_price",
                pc           |-> "bisect",
                low          |-> call.low,
                high         |-> call.high,
                m_high       |-> call.m_high,
                expand_guard |-> call.expand_guard,
                best         |-> call.high,
                iteration    |-> 0]
    /\ now' = now + 1
    /\ UNCHANGED <<ledger, policy, order, runs, events, lifetime, reported, deliveries, pending>>

bisect_at(frame, mid, unit_cost, quantity, pricing) ==
    bisect(frame, mid, margin_at(mid, unit_cost, quantity, pricing),
           pricing.target_net_margin)

\* one iteration of the for loop
Bisect ==
    /\ call.op = "recommend_price" /\ call.pc = "bisect"
    /\ call.iteration < MaxIterations
    /\ call' = [bisect_at(call, midpoint(call.low, call.high),
                          order.unit_cost, order.quantity, policy)
                EXCEPT !.iteration = @ + 1]
    /\ now' = now + 1
    /\ UNCHANGED <<ledger, policy, order, runs, events, lifetime, reported, deliveries, pending>>

\* the for loop is over: best = self._round_price(best, policy)
Round ==
    /\ call.op = "recommend_price" /\ call.pc = "bisect"
    /\ call.iteration = MaxIterations
    /\ call' = [op   |-> "recommend_price",
                pc   |-> "rounded",
                best |-> round_price(call.best, policy)]
    /\ now' = now + 1
    /\ UNCHANGED <<ledger, policy, order, runs, events, lifetime, reported, deliveries, pending>>

\* the final breakdown, the points and the return
Return ==
    /\ call.op = "recommend_price" /\ call.pc = "rounded"
    /\ call' = [op     |-> "recommend_price",
                pc     |-> "returned",
                result |-> price_found(call.best, order.unit_cost, order.quantity, policy)]
    /\ now' = now + 1
    /\ UNCHANGED <<ledger, policy, order, runs, events, lifetime, reported, deliveries, pending>>

computed(inputs) ==
    IF compute_raises(inputs)
    THEN [op |-> "compute", pc |-> "raised", inputs |-> inputs, error |-> "ValueError"]
    ELSE [op |-> "compute", pc |-> "returned", inputs |-> inputs, result |-> compute(inputs)]

\* CostModel().compute(CostInputs(retail_price=price, ...)) called directly
Compute(price) ==
    /\ call = NoCall
    /\ call' = computed(cost_inputs(price, order.unit_cost, order.quantity, policy))
    /\ now' = now + 1
    /\ UNCHANGED <<ledger, policy, order, runs, events, lifetime, reported, deliveries, pending>>

NextPricing ==
    \/ RecommendPrice
    \/ Expand
    \/ Expanded
    \/ Bisect
    \/ Round
    \/ Return
    \/ \E price \in ComputePrices : Compute(price)

SpecPricing ==
    InitPricing /\ [][NextPricing]_vars

\* a call of recommend_price that has neither raised nor returned
InProgress ==
    call.op = "recommend_price" /\ call.pc \in {"expand", "bisect", "rounded"}

\* the next statement of a call in progress is executed: every step of
\* NextPricing counts one more statement in now
Step ==
    InProgress /\ now' = now + 1

\* the same runs, with a call in progress always taking its next step (the
\* code is synchronous: nothing suspends a call between two statements)
SpecPricingFair ==
    SpecPricing /\ WF_now(Step)

\* CostModel.compute(price).net_margin for the item and policy of the run
NetMarginAt(price) ==
    compute(cost_inputs(price, order.unit_cost, order.quantity, policy)).net_margin

\* the search of recommend_price is over and best not yet rounded
SearchOver ==
    call.op = "recommend_price" /\ call.pc = "bisect" /\ call.iteration = MaxIterations

Returned ==
    call.op = "recommend_price" /\ call.pc = "returned"

\* a tolerance of one point of margin, a hundred times the step of net_margin
MarginTolerance ==
    DCents(1)

\* C11: for every accepted input the price the search found has
\* CostModel.compute(price).net_margin >= target_net_margin - epsilon, and
\* so has the rounded price that is returned (epsilon taken as 0.01).
C11_MarginGuarantee ==
    /\ SearchOver =>
         DCmp(NetMarginAt(call.best),
              DSub(policy.target_net_margin, MarginTolerance)) >= 0
    /\ Returned =>
         DCmp(NetMarginAt(call.result.retail_price),
              DSub(policy.target_net_margin, MarginTolerance)) >= 0

\* the scenario: unit_cost 5.00, quantity 1, target 0.35, processor 2.9% +
\* 0.30, platform fee 2%, rewards reserve 2%, rounding 0.01, no *.99 pricing
Scenario ==
    /\ order = [unit_cost |-> DCents(500), quantity |-> 1]
    /\ policy = default_pricing

\* C12: in the scenario the retail_price recommend_price returns, evaluated
\* by CostModel.compute, has net_margin >= 0.35.
C12_ScenarioMarginAfterRounding ==
    Scenario /\ Returned =>
        DCmp(NetMarginAt(call.result.retail_price), DCents(35)) >= 0

\* the margin tends to 1 minus the rates charged on the retail price as the
\* price grows: a target below that is attainable
Attainable ==
    DCmp(DAdd(policy.target_net_margin,
              DAdd(policy.payment_processor_rate,
              DAdd(policy.platform_fee_rate,
              DAdd(policy.tax_rate,
              DAdd(policy.rewards_rate_of_retail,
              DAdd(policy.overhead_rate_of_retail,
                   policy.risk_buffer_rate_of_retail)))))),
         DInt(1)) < 0

\* C13: when the target is attainable and psychological pricing is off, the
\* returned price p is the lowest on the rounding grid that meets the
\* target: margin(p) >= target and margin(p - price_rounding) < target.
C13_MinimumPriceOnGrid ==
    Returned /\ Attainable /\ ~policy.psychological_pricing =>
        /\ DCmp(NetMarginAt(call.result.retail_price), policy.target_net_margin) >= 0
        /\ DCmp(NetMarginAt(DSub(call.result.retail_price, policy.price_rounding)),
                policy.target_net_margin) < 0

\* one iteration of the for loop leaves [low, high] strictly inside what it was
Narrowed ==
    /\ DCmp(call.low, call'.low) <= 0
    /\ DCmp(call'.low, call'.high) <= 0
    /\ DCmp(call'.high, call.high) <= 0
    /\ (DCmp(call.low, call'.low) < 0 \/ DCmp(call'.high, call.high) < 0)

C15_InvalidInputsRaise ==
    /\ call.op = "recommend_price" =>
         /\ call.pc = "raised" <=>
              \/ order.quantity < 1
              \/ DCmp(order.unit_cost, DZero) < 0
              \/ DCmp(policy.target_net_margin, DZero) < 0
              \/ DCmp(policy.target_net_margin, DInt(1)) >= 0
         /\ call.pc = "raised" => "result" \notin DOMAIN call
         /\ call.pc = "returned" => "result" \in DOMAIN call
    /\ call.op = "compute" =>
         /\ call.pc = "raised" <=> order.quantity < 1
         /\ call.pc = "raised" => "result" \notin DOMAIN call
         /\ call.pc = "returned" => "result" \in DOMAIN call

\* C15 witness: a call with a valid quantity and unit cost raised because
\* its target is 1
C15_Witness ==
    /\ call.op = "recommend_price" /\ call.pc = "raised"
    /\ order.quantity >= 1 /\ DSign(order.unit_cost) >= 0
    /\ policy.target_net_margin = DInt(1)

\* --------------------------------------------------------------------------
\* loyalty_policy.py, construction.  LoyaltyPolicy(...) and
\* LoyaltyPolicy.from_dict(data).  A value of the loosely typed dict is
\* [kind |-> "missing"] (no such key, or None), [kind |-> "str", text],
\* [kind |-> "Decimal", value], [kind |-> "int", value],
\* [kind |-> "list", items] or a [kind |-> "dict", ...] with its keys.
\* --------------------------------------------------------------------------
Missing ==
    [kind |-> "missing"]

StrValue(text) ==
    [kind |-> "str", text |-> text]

IntValue(n) ==
    [kind |-> "int", value |-> n]

DecimalValue(d) ==
    [kind |-> "Decimal", value |-> d]

ListValue(items) ==
    [kind |-> "list", items |-> items]

\* text[i] as a text of one character
char_at(text, i) ==
    SubSeq(text, i, i)

\* text.lstrip() for blanks
RECURSIVE lstrip(_)
lstrip(text) ==
    IF Len(text) > 0 /\ char_at(text, 1) = " "
    THEN lstrip(SubSeq(text, 2, Len(text)))
    ELSE text

\* text.rstrip() for blanks
RECURSIVE rstrip(_)
rstrip(text) ==
    IF Len(text) > 0 /\ char_at(text, Len(text)) = " "
    THEN rstrip(SubSeq(text, 1, Len(text) - 1))
    ELSE text

\* text.strip()
strip(text) ==
    rstrip(lstrip(text))

\* str(v) of a value that is a text, default when the key is missing
str_of(v, default) ==
    IF v.kind = "missing" THEN default ELSE v.text

is_digit(ch) ==
    \E d \in 1..10 : char_at("0123456789", d) = ch

digit_of(ch) ==
    (CHOOSE d \in 1..10 : char_at("0123456789", d) = ch) - 1

\* a numeral without its sign
unsigned(text) ==
    IF Len(text) > 0 /\ char_at(text, 1) \in {"+", "-"}
    THEN SubSeq(text, 2, Len(text))
    ELSE text

dots(text) ==
    {i \in 1..Len(text) : char_at(text, i) = "."}

\* Decimal(text) does not raise: blanks around an optional sign and digits
\* with at most one point (exponents, NaN and Infinity are left out)
is_number(text) ==
    /\ Cardinality(dots(unsigned(strip(text)))) <= 1
    /\ Len(unsigned(strip(text))) > Cardinality(dots(unsigned(strip(text))))
    /\ \A i \in 1..Len(unsigned(strip(text))) :
          \/ i \in dots(unsigned(strip(text)))
          \/ is_digit(char_at(unsigned(strip(text)), i))

\* the digits of a numeral read as an integer, the point skipped
RECURSIVE digits_to_int(_, _)
digits_to_int(text, acc) ==
    IF Len(text) = 0 THEN acc
    ELSE IF char_at(text, 1) = "." THEN digits_to_int(SubSeq(text, 2, Len(text)), acc)
    ELSE digits_to_int(SubSeq(text, 2, Len(text)), 10 * acc + digit_of(char_at(text, 1)))

\* the number of digits after the point
fraction_digits(text) ==
    IF dots(text) = {} THEN 0 ELSE Len(text) - SetMin(dots(text))

\* Decimal(text) for a text that is a number
decimal_of(text) ==
    DScaled(IF char_at(strip(text), 1) = "-"
            THEN -digits_to_int(unsigned(strip(text)), 0)
            ELSE digits_to_int(unsigned(strip(text)), 0),
            -fraction_digits(unsigned(strip(text))))

\* _to_decimal(v, default)
to_decimal(v, default) ==
    IF v.kind = "missing" THEN default
    ELSE IF v.kind = "Decimal" THEN v.value
    ELSE IF v.kind = "int" THEN DInt(v.value)
    ELSE IF is_number(v.text) THEN decimal_of(v.text)
    ELSE default

\* PointsRule(...): the fields _validate reads
PointsRule(points_per_currency_unit, earn_rate_of_eligible_spend, rounding, points_expiry_days) ==
    [points_per_currency_unit    |-> points_per_currency_unit,
     earn_rate_of_eligible_spend |-> earn_rate_of_eligible_spend,
     rounding                    |-> rounding,
     points_expiry_days          |-> points_expiry_days]

\* PointsRule() with the defaults of the dataclass
default_points_rule ==
    PointsRule(DInt(100), DCents(2), "nearest", Missing)

\* the fields of a LoyaltyPolicy as the dataclass stores them
LoyaltyPolicyFields(program_name, currency, tiers, points_rule) ==
    [program_name                  |-> program_name,
     currency                      |-> currency,
     tiers                         |-> tiers,
     points_per_currency_unit      |-> points_rule.points_per_currency_unit,
     earn_rate_of_eligible_spend   |-> points_rule.earn_rate_of_eligible_spend,
     rounding                      |-> points_rule.rounding,
     points_expiry_days            |-> points_rule.points_expiry_days,
     allow_downgrades              |-> FALSE,
     allow_negative_points_balance |-> FALSE]

\* __post_init__ before _validate: an empty list of tiers becomes the
\* default tiers
post_init(p) ==
    [p EXCEPT !.tiers = IF p.tiers = <<>> THEN default_tiers ELSE p.tiers]

\* a _validate that never finds a key seen before
key_never_seen(st, i) ==
    FALSE

\* t.key in seen, for the i-th of the sorted tiers
key_seen(st, i) ==
    \E j \in 1..(i - 1) : st[j].key = st[i].key

\* the error the loop of _validate raises at the i-th sorted tier, "" if none
tier_error(st, i) ==
    IF strip(st[i].key) = "" THEN "tier.key cannot be empty"
    ELSE IF key_seen(st, i) THEN "duplicate tier key"
    ELSE IF DSign(st[i].min_lifetime_spend) < 0 THEN "tier.min_lifetime_spend cannot be negative"
    ELSE ""

\* the tiers part of _validate over the sorted tiers st
tiers_error(st) ==
    IF Len(st) < 1 THEN "tiers must contain at least one tier"
    ELSE IF \E i \in 1..Len(st) : tier_error(st, i) # ""
    THEN tier_error(st, SetMin({i \in 1..Len(st) : tier_error(st, i) # ""}))
    ELSE IF DSign(st[1].min_lifetime_spend) # 0 THEN "first tier must have min_lifetime_spend = 0.00"
    ELSE ""

\* the points rule part of _validate
points_rule_error(p) ==
    IF DSign(p.points_per_currency_unit) <= 0 THEN "points_per_currency_unit must be > 0"
    ELSE IF DSign(p.earn_rate_of_eligible_spend) < 0
            \/ DCmp(p.earn_rate_of_eligible_spend, DInt(1)) >= 0
    THEN "earn_rate_of_eligible_spend must be between 0 and < 1"
    ELSE IF p.rounding \notin {"nearest", "down"} THEN "points rounding must be 'nearest' or 'down'"
    ELSE IF p.points_expiry_days.kind # "missing" /\ p.points_expiry_days.value <= 0
    THEN "points_expiry_days must be > 0 if set"
    ELSE ""

\* _validate: the message of the ValueError it raises, "" if it returns
validate(p) ==
    IF strip(p.program_name) = "" THEN "program_name cannot be empty"
    ELSE IF strip(p.currency) = "" THEN "currency cannot be empty"
    ELSE IF points_rule_error(p) # "" THEN points_rule_error(p)
    ELSE tiers_error(sorted_tiers(p.tiers))

\* the Tier from_dict builds from a dict t of the list
tier_from(t) ==
    Tier(strip(str_of(t.key, "")), to_decimal(t.min_lifetime_spend, DZero))

is_dict(t) ==
    t.kind = "dict"

\* data.get("tiers") or []
tiers_in(data) ==
    IF data.tiers.kind = "missing" THEN <<>> ELSE data.tiers.items

\* the tiers from_dict builds: one per dict of the list, others skipped
tiers_from(items) ==
    [i \in 1..Len(SelectSeq(items, is_dict)) |-> tier_from(SelectSeq(items, is_dict)[i])]

\* the PointsRule from_dict builds from pr_in
points_rule_from(pr_in) ==
    IF pr_in.kind # "dict" THEN default_points_rule
    ELSE PointsRule(to_decimal(pr_in.points_per_currency_unit, DInt(100)),
                    to_decimal(pr_in.earn_rate_of_eligible_spend, DCents(2)),
                    str_of(pr_in.rounding, "nearest"),
                    pr_in.points_expiry_days)

\* the fields from_dict passes to LoyaltyPolicy(...)
from_dict_fields(data) ==
    LoyaltyPolicyFields(str_of(data.program_name, "Exclusivity"),
                        str_of(data.currency, "USD"),
                        IF tiers_from(tiers_in(data)) # <<>>
                        THEN tiers_from(tiers_in(data)) ELSE default_tiers,
                        points_rule_from(data.points_rule))

\* LoyaltyPolicy() with every default
default_policy ==
    post_init(LoyaltyPolicyFields("Exclusivity", "USD", <<>>, default_points_rule))

\* --------------------------------------------------------------------------
\* SpecPolicy: one construction of a LoyaltyPolicy, directly or by
\* from_dict, from small fields; policy is the last object constructed
\* --------------------------------------------------------------------------
MaxTierList == 2

ProgramNames ==
    {"", " ", "Exclusivity"}

Currencies ==
    {"", "USD"}

DirectTiers ==
    {Tier(k, m) : k \in {"", "a", "b"}, m \in {DCents(-100), DZero, DCents(500)}}

DirectTierLists ==
    UNION {[1..n -> DirectTiers] : n \in 0..MaxTierList}

DirectPointsRules ==
    {PointsRule(u, r, g, x) :
        u \in {DZero, DInt(100)}, r \in {DCents(-1), DCents(2), DInt(1)},
        g \in {"nearest", "down", "up"}, x \in {Missing, IntValue(0), IntValue(30)}}

DictTiers ==
    {StrValue("gold")} \cup
    {[kind |-> "dict", key |-> k, min_lifetime_spend |-> m] :
        k \in {Missing, StrValue("a"), StrValue(" a")},
        m \in {Missing, StrValue("0"), StrValue("-5"), StrValue("abc"), StrValue("5.00")}}

DictTierLists ==
    {Missing} \cup {ListValue(l) : l \in UNION {[1..n -> DictTiers] : n \in 0..MaxTierList}}

DictPointsRules ==
    {Missing} \cup
    {[kind |-> "dict", points_per_currency_unit |-> u, earn_rate_of_eligible_spend |-> r,
      rounding |-> g, points_expiry_days |-> x] :
        u \in {Missing, StrValue("0"), StrValue("x")}, r \in {Missing, StrValue("1")},
        g \in {Missing, StrValue("up")}, x \in {Missing, IntValue(-1)}}

PolicyDicts ==
    [program_name : {Missing, StrValue(""), StrValue("Exclusivity")},
     currency     : {Missing, StrValue("")},
     tiers        : DictTierLists,
     points_rule  : DictPointsRules]

InitPolicy ==
    /\ policy = default_policy
    /\ ledger = [allow_negative_balance |-> FALSE]
    /\ order = <<>>
    /\ now = 0
    /\ runs = <<>>
    /\ events = <<>>
    /\ call = NoCall
    /\ lifetime = <<>>
    /\ reported = <<>>
    /\ deliveries = <<>>
    /\ pending = <<>>

\* the constructor on the fields p: __post_init__ raises, or the object exists
constructed(op, args, p) ==
    /\ call' = [op |-> op, args |-> args, raised |-> validate(post_init(p))]
    /\ policy' = IF validate(post_init(p)) = "" THEN post_init(p) ELSE policy
    /\ UNCHANGED <<ledger, order, now, runs, events, lifetime, reported, deliveries, pending>>

\* LoyaltyPolicy(program_name=..., currency=..., tiers=..., points_rule=...)
Construct ==
    /\ call = NoCall
    /\ \E n \in ProgramNames : \E c \in Currencies : \E t \in DirectTierLists :
          \E r \in DirectPointsRules :
             constructed("LoyaltyPolicy",
                         [program_name |-> n, currency |-> c, tiers |-> t, points_rule |-> r],
                         LoyaltyPolicyFields(n, c, t, r))

\* LoyaltyPolicy.from_dict(data)
FromDict ==
    /\ call = NoCall
    /\ \E data \in PolicyDicts : constructed("from_dict", data, from_dict_fields(data))

NextPolicy ==
    \/ Construct
    \/ FromDict

SpecPolicy ==
    InitPolicy /\ [][NextPolicy]_vars

\* a value of the dict that is given and is a number
is_numeric(v) ==
    \/ v.kind \in {"Decimal", "int"}
    \/ v.kind = "str" /\ is_number(v.text)

\* the number a numeric value of the dict stands for
numeric(v) ==
    to_decimal(v, DZero)

\* a points rule the claim names as invalid: its unit, rate, rounding
\* mode or expiry
BadPointsRule(unit, rate, rounding, days) ==
    \/ DSign(unit) <= 0
    \/ DSign(rate) < 0
    \/ DCmp(rate, DInt(1)) >= 0
    \/ rounding \notin {"nearest", "down"}
    \/ days.kind # "missing" /\ days.value <= 0

\* tiers the claim names as invalid: two share a key, a threshold is
\* negative, or the lowest threshold is not 0
BadTiers(tiers) ==
    \/ \E i \in 1..Len(tiers) : \E j \in 1..Len(tiers) : i # j /\ tiers[i].key = tiers[j].key
    \/ \E i \in 1..Len(tiers) : DSign(tiers[i].min_lifetime_spend) < 0
    \/ \E i \in 1..Len(tiers) :
          /\ DSign(tiers[i].min_lifetime_spend) # 0
          /\ \A j \in 1..Len(tiers) :
                DCmp(tiers[i].min_lifetime_spend, tiers[j].min_lifetime_spend) <= 0

\* the arguments of a direct construction are invalid in a way the claim names
BadArguments(a) ==
    \/ a.program_name = ""
    \/ a.currency = ""
    \/ BadPointsRule(a.points_rule.points_per_currency_unit,
                     a.points_rule.earn_rate_of_eligible_spend,
                     a.points_rule.rounding, a.points_rule.points_expiry_days)
    \/ BadTiers(a.tiers)

\* the dicts of a tiers value
tier_dicts(data) ==
    SelectSeq(tiers_in(data), is_dict)

\* the tiers a dict gives, every threshold given as a number
GivenTiers(data) ==
    [i \in 1..Len(tier_dicts(data)) |->
        Tier(strip(str_of(tier_dicts(data)[i].key, "")),
             numeric(tier_dicts(data)[i].min_lifetime_spend))]

\* the dict handed to from_dict is invalid in a way the claim names, in
\* values that are given and are what their field asks for
BadDict(data) ==
    \/ data.program_name.kind = "str" /\ data.program_name.text = ""
    \/ data.currency.kind = "str" /\ data.currency.text = ""
    \/ /\ data.points_rule.kind = "dict"
       /\ \/ /\ is_numeric(data.points_rule.points_per_currency_unit)
             /\ DSign(numeric(data.points_rule.points_per_currency_unit)) <= 0
          \/ /\ is_numeric(data.points_rule.earn_rate_of_eligible_spend)
             /\ \/ DSign(numeric(data.points_rule.earn_rate_of_eligible_spend)) < 0
                \/ DCmp(numeric(data.points_rule.earn_rate_of_eligible_spend), DInt(1)) >= 0
          \/ /\ data.points_rule.rounding.kind = "str"
             /\ data.points_rule.rounding.text \notin {"nearest", "down"}
          \/ /\ data.points_rule.points_expiry_days.kind = "int"
             /\ data.points_rule.points_expiry_days.value <= 0
    \/ /\ \A i \in 1..Len(tier_dicts(data)) :
             is_numeric(tier_dicts(data)[i].min_lifetime_spend)
       /\ BadTiers(GivenTiers(data))

\* C16: a construction, direct or by from_dict, fails when the program name
\* or the currency is empty, points_per_currency_unit <= 0, the earn rate is
\* outside [0,1), the rounding mode is unknown, points_expiry_days is given
\* and <= 0, two tiers share a key, a threshold is negative or the lowest
\* threshold is not 0; and every policy object has at least one tier, unique
\* tier keys, no negative threshold and a tier with threshold 0.
C16_ConstructionValidates ==
    /\ (call.op = "LoyaltyPolicy" /\ BadArguments(call.args)) => call.raised # ""
    /\ (call.op = "from_dict" /\ BadDict(call.args)) => call.raised # ""
    /\ Len(policy.tiers) >= 1
    /\ \A i \in 1..Len(policy.tiers) : \A j \in 1..Len(policy.tiers) :
          policy.tiers[i].key = policy.tiers[j].key => i = j
    /\ \A i \in 1..Len(policy.tiers) : DSign(policy.tiers[i].min_lifetime_spend) >= 0
    /\ \E i \in 1..Len(policy.tiers) : DSign(policy.tiers[i].min_lifetime_spend) = 0

\* C16 witness: from_dict was given two tiers whose keys differ only in a
\* blank, with thresholds 0 and 5.00 and nothing else wrong, and failed on
\* the duplicate key
C16_Witness ==
    /\ call.op = "from_dict"
    /\ call.raised = "duplicate tier key"
    /\ call.args.program_name = Missing /\ call.args.currency = Missing
    /\ call.args.points_rule = Missing
    /\ Len(tier_dicts(call.args)) = 2
    /\ tier_dicts(call.args)[1].key # tier_dicts(call.args)[2].key
    /\ policy = default_policy

\* C17: from_dict fails when the tiers value it is given is a list that
\* yields no tier (an empty list, or a list of entries that are not dicts),
\* or holds a tier whose threshold is not a number; it never returns a
\* policy with substituted tiers or thresholds.
C17_InvalidTierListRejected ==
    (/\ call.op = "from_dict"
     /\ call.args.tiers.kind = "list"
     /\ \/ tier_dicts(call.args) = <<>>
        \/ \E i \in 1..Len(tier_dicts(call.args)) :
              /\ tier_dicts(call.args)[i].min_lifetime_spend.kind = "str"
              /\ ~is_number(tier_dicts(call.args)[i].min_lifetime_spend.text))
    => call.raised # ""

\* --------------------------------------------------------------------------
\* points_ledger.py, validate_new_event
\* --------------------------------------------------------------------------
\* the event ids of every event of the list, whoever its member
existing_ids_of_anyone(member_ref, evs) ==
    {evs[i].event_id : i \in 1..Len(evs)}

\* {e.event_id for e in existing_events if e.member_ref == member_ref}
existing_ids(member_ref, evs) ==
    {evs[i].event_id : i \in {j \in 1..Len(evs) : evs[j].member_ref = member_ref}}

\* {e.idempotency_key for e in existing_events
\*    if e.member_ref == member_ref and e.idempotency_key}
existing_idem(member_ref, evs) ==
    {evs[i].idempotency_key :
        i \in {j \in 1..Len(evs) : /\ evs[j].member_ref = member_ref
                                   /\ evs[j].idempotency_key # NoKey}}

\* the dict returned for a refusal
refused(error, code) ==
    [ok |-> FALSE, error |-> error, code |-> code]

\* the dict returned for a removal that the ledger will clamp
clamp_warning(projected) ==
    [ok |-> TRUE,
     warning |-> "event would drive balance below 0; ledger clamps to 0",
     code |-> "CLAMP_TO_ZERO",
     projected_balance |-> projected,
     effective_balance_after_clamp |-> 0]

\* the negative balance policy, the last part of validate_new_event
negative_balance_check(allow_negative_balance, member_ref, existing_events, new_event) ==
    IF /\ ~allow_negative_balance
       /\ new_event.points_delta < 0
       /\ reduce(allow_negative_balance, member_ref, existing_events).points_balance
             + new_event.points_delta < 0
    THEN clamp_warning(reduce(allow_negative_balance, member_ref, existing_events).points_balance
                          + new_event.points_delta)
    ELSE [ok |-> TRUE]

\* PointsLedger(allow_negative_balance).validate_new_event(member_ref=...,
\* existing_events=..., new_event=...)
validate_new_event(allow_negative_balance, member_ref, existing_events, new_event) ==
    IF new_event.member_ref # member_ref
    THEN refused("member_ref mismatch", "MEMBER_MISMATCH")
    ELSE IF new_event.points_delta = 0
    THEN refused("points_delta cannot be 0", "ZERO_DELTA")
    ELSE IF new_event.event_id \in existing_ids(member_ref, existing_events)
    THEN refused("duplicate event_id", "DUP_EVENT_ID")
    ELSE IF /\ new_event.idempotency_key # NoKey
            /\ new_event.idempotency_key \in existing_idem(member_ref, existing_events)
    THEN refused("duplicate idempotency_key", "DUP_IDEMPOTENCY")
    ELSE negative_balance_check(allow_negative_balance, member_ref, existing_events, new_event)

\* --------------------------------------------------------------------------
\* SpecValidate: one validate_new_event of a new event against a history of
\* up to MaxHistory events
\* --------------------------------------------------------------------------
MaxHistory == 2
MaxRemoval == 2

HistoryEvents ==
    {LedgerEvent(id, m, IF d > 0 THEN "earn" ELSE "refund", d, k, <<>>, <<>>, t,
                 Meta(NoAmount, <<>>)) :
        id \in {<<"e1">>, <<"e2">>}, m \in Members, d \in {-1, MaxRemoval},
        k \in {NoKey, <<"k1">>}, t \in 1..MaxTime}

Histories ==
    UNION {[1..n -> HistoryEvents] : n \in 0..MaxHistory}

NewEvents ==
    {LedgerEvent(id, m, IF d > 0 THEN "earn" ELSE "refund", d, k, <<>>, <<>>, MaxTime + 1,
                 Meta(NoAmount, <<>>)) :
        id \in {<<"e2">>, <<"e3">>}, m \in Members, d \in (-MaxRemoval)..1,
        k \in {NoKey, <<"k1">>}}

InitValidate ==
    /\ ledger \in [allow_negative_balance : BOOLEAN]
    /\ events \in Histories
    /\ call = NoCall
    /\ policy = <<>>
    /\ order = <<>>
    /\ now = 0
    /\ runs = <<>>
    /\ lifetime = <<>>
    /\ reported = <<>>
    /\ deliveries = 0
    /\ pending = {}

\* ledger.validate_new_event(member_ref=..., existing_events=events, new_event=...)
ValidateNewEvent ==
    /\ call = NoCall
    /\ \E member_ref \in Members : \E new_event \in NewEvents :
          call' = [op |-> "validate_new_event", member_ref |-> member_ref,
                   new_event |-> new_event,
                   result |-> validate_new_event(ledger.allow_negative_balance, member_ref,
                                                 events, new_event)]
    /\ UNCHANGED <<ledger, policy, order, now, runs, events, lifetime, reported, deliveries, pending>>

NextValidate ==
    ValidateNewEvent

SpecValidate ==
    InitValidate /\ [][NextValidate]_vars

\* the new event carries the id of an event of the member in the history
IdPresent ==
    \E i \in 1..Len(events) :
        /\ events[i].member_ref = call.member_ref
        /\ events[i].event_id = call.new_event.event_id

\* the new event carries a key, and an event of the member in the history
\* carries the same key
KeyPresent ==
    /\ call.new_event.idempotency_key # NoKey
    /\ \E i \in 1..Len(events) :
          /\ events[i].member_ref = call.member_ref
          /\ events[i].idempotency_key = call.new_event.idempotency_key

\* the code of a result, "" when the dict has none
CodeOf(result) ==
    IF "code" \in DOMAIN result THEN result.code ELSE ""

\* C18: validate_new_event returns a dict for every history and new event;
\* ok is false exactly for another member's event, a points_delta of 0, an
\* event_id already in the member's history, or a non-empty idempotency_key
\* already in the member's history, reported in that order; a removal that
\* would take the balance below 0 under allow_negative_balance = false is
\* not refused: it returns ok = true with the code CLAMP_TO_ZERO.
C18_ValidateNeverRejectsRemoval ==
    call.op = "validate_new_event" =>
        /\ call.result.ok \in BOOLEAN
        /\ call.result.ok = ~(\/ call.new_event.member_ref # call.member_ref
                              \/ call.new_event.points_delta = 0
                              \/ IdPresent
                              \/ KeyPresent)
        /\ ~call.result.ok =>
              CodeOf(call.result) =
                  IF call.new_event.member_ref # call.member_ref THEN "MEMBER_MISMATCH"
                  ELSE IF call.new_event.points_delta = 0 THEN "ZERO_DELTA"
                  ELSE IF IdPresent THEN "DUP_EVENT_ID"
                  ELSE "DUP_IDEMPOTENCY"
        /\ (/\ call.result.ok
            /\ ~ledger.allow_negative_balance
            /\ call.new_event.points_delta < 0
            /\ reduce(FALSE, call.member_ref, events).points_balance
                  + call.new_event.points_delta < 0)
           => CodeOf(call.result) = "CLAMP_TO_ZERO"

\* C18 witness: the member holds one point less than the new event removes,
\* after an earn and a removal, and the result is ok with the code
\* CLAMP_TO_ZERO and the projected balance -1
C18_Witness ==
    /\ call.op = "validate_new_event"
    /\ ~ledger.allow_negative_balance
    /\ Len(events) = 2
    /\ reduce(FALSE, call.member_ref, events).points_balance = MaxRemoval - 1
    /\ call.new_event.points_delta = -MaxRemoval
    /\ call.result.ok
    /\ CodeOf(call.result) = "CLAMP_TO_ZERO"
    /\ call.result.projected_balance = -1

\* --------------------------------------------------------------------------
\* SpecRace: award_for_order for distinct orders of one member, called by
\* up to MaxCallers workers that share the tables, each call a step per
\* request it sends to the store.  runs holds the frame of each worker's
\* call, pending the workers that hold the caller's lock on the member,
\* call the scenario: whether callers take that lock, and the lifetime
\* spend stored at the start.
\* --------------------------------------------------------------------------
MaxCallers == 2
InitialSpend == 250

Callers ==
    1..MaxCallers

RaceOrderIds ==
    <<<<"o1">>, <<"o2">>, <<"o3">>>>

\* the order worker c awards
RaceOrder(c) ==
    [ServiceOrder EXCEPT !.order_id = RaceOrderIds[c]]

NoFrame ==
    [pc |-> "idle"]

\* an upsert that is lost
upsert_skipped(table, member_ref, new_total) ==
    table

\* self.sb.table(self.table_members).upsert(payload).execute()
upsert_member(table, member_ref, new_total) ==
    [table EXCEPT ![member_ref] = new_total]

\* Decimal(lifetime_spend_increment or D("0.00")) after the fallback to the
\* eligible spend of the allocation
increment_for(lifetime_spend_increment, allocation) ==
    IF lifetime_spend_increment = NoIncrement
    THEN allocation.eligible_spend
    ELSE lifetime_spend_increment

InitRace ==
    /\ policy = ServicePolicy
    /\ ledger = [allow_negative_balance |-> policy.allow_negative_points_balance]
    /\ order = ServiceOrder
    /\ now = 1
    /\ runs = [c \in Callers |-> NoFrame]
    /\ events = <<>>
    /\ \E serialized \in BOOLEAN : \E initial \in {DZero, DCents(InitialSpend)} :
          /\ call = [op |-> "award_for_order", serialized |-> serialized, initial |-> initial]
          /\ lifetime = [m \in Members |-> IF m = order.member_ref THEN initial ELSE DZero]
    /\ reported = [m \in Members |-> NoReport]
    /\ deliveries = 0
    /\ pending = {}

\* award_for_order up to the append of the events: get_policy, the
\* allocation, append_ledger_events
awarded(c, lifetime_spend_increment, allocation) ==
    /\ events' = append_ledger_events(events, allocation.events)
    /\ runs' = [runs EXCEPT ![c] =
                   [pc |-> "appended",
                    inserted |-> inserted(events, allocation.events),
                    awarded_points_total |-> allocation.points_awarded,
                    amount |-> increment_for(lifetime_spend_increment, allocation)]]

\* worker c is called; a caller that serializes takes the lock of the member
AwardStart(c) ==
    /\ runs[c].pc = "idle"
    /\ call.serialized => pending = {}
    /\ pending' = IF call.serialized THEN {c} ELSE pending
    /\ \E inc \in Increments :
          awarded(c, inc, allocate_for_order(policy, RaceOrder(c), <<"earn">>,
                                             <<"idem", ":", "earn">>, now))
    /\ UNCHANGED <<ledger, policy, order, now, call, lifetime, reported, deliveries>>

\* increment_member_lifetime_spend: current = await
\* self.get_member_lifetime_spend(...)
ReadSpend(c) ==
    /\ runs[c].pc = "appended"
    /\ runs' = [runs EXCEPT ![c] =
                   [pc |-> "read", inserted |-> runs[c].inserted,
                    awarded_points_total |-> runs[c].awarded_points_total,
                    amount |-> runs[c].amount,
                    current |-> lifetime[order.member_ref]]]
    /\ UNCHANGED <<ledger, policy, order, now, events, call, lifetime, reported, deliveries, pending>>

\* the upsert of current + amount, then the rest of award_for_order: the
\* status snapshot and the return; the lock, if taken, is released
written(c, new_total, table) ==
    /\ lifetime' = table
    /\ runs' = [runs EXCEPT ![c] =
                   [pc |-> "returned", inserted |-> runs[c].inserted,
                    awarded_points_total |-> runs[c].awarded_points_total,
                    amount |-> runs[c].amount,
                    lifetime_spend_total |-> Q2(new_total),
                    member_status |->
                        get_member_status(policy, events, table[order.member_ref],
                                          order.member_ref)]]
    /\ reported' = [reported EXCEPT ![order.member_ref] =
                       Report(@, get_member_status(policy, events, table[order.member_ref],
                                                   order.member_ref).tier)]

stored(c, new_total) ==
    written(c, new_total, upsert_member(lifetime, order.member_ref, new_total))

WriteSpend(c) ==
    /\ runs[c].pc = "read"
    /\ stored(c, increment_member_lifetime_spend(runs[c].current, runs[c].amount))
    /\ pending' = pending \ {c}
    /\ UNCHANGED <<ledger, policy, order, now, events, call, deliveries>>

NextRace ==
    \/ \E c \in Callers : AwardStart(c)
    \/ \E c \in Callers : ReadSpend(c)
    \/ \E c \in Callers : WriteSpend(c)

SpecRace ==
    InitRace /\ [][NextRace]_vars

\* the calls that have returned
ReturnedCalls ==
    {c \in Callers : runs[c].pc = "returned"}

\* the sum of the increments of the calls in S
RECURSIVE SumIncrements(_)
SumIncrements(S) ==
    IF S = {} THEN DZero
    ELSE DAdd(runs[SetMin(S)].amount, SumIncrements(S \ {SetMin(S)}))

\* C19: when the calls of award_for_order for one member are serialized, the
\* stored lifetime spend is the initial value plus the increments of the
\* calls that have returned, after any number of them; it is never above
\* that sum, and calls that are not serialized can leave it below (the
\* witness).
C19_LostUpdateOnLifetimeSpend ==
    /\ DCmp(lifetime[order.member_ref],
            DAdd(call.initial, SumIncrements(ReturnedCalls))) <= 0
    /\ call.serialized =>
          lifetime[order.member_ref] = DAdd(call.initial, SumIncrements(ReturnedCalls))

\* C19 witness: two calls that were not serialized have both returned, each
\* after reading the spend before the other wrote it, and the stored
\* lifetime spend is below the initial value plus both increments
C19_Witness ==
    /\ ~call.serialized
    /\ ReturnedCalls = Callers
    /\ \A c \in Callers : runs[c].inserted = 1
    /\ DCmp(lifetime[order.member_ref],
            DAdd(call.initial, SumIncrements(Callers))) < 0

\* --------------------------------------------------------------------------
\* SpecShares: one direct call of the static method
\* RewardsAllocator._allocate_points_to_lines over up to MaxShareLines lines
\* and up to MaxSharePoints points
\* --------------------------------------------------------------------------
MaxShareLines == 3
MaxSharePoints == 3

\* eligible amounts in hundredths: none, one unit and four units
ShareAmounts ==
    {0, 100, 400}

ShareLineIds ==
    <<<<"L1">>, <<"L2">>, <<"L3">>, <<"L4">>>>

\* eligible_by_line for lines L1, L2, ... with the amounts of the list
shares_of(amounts) ==
    [i \in 1..Len(amounts) |->
        [line |-> OrderLine(ShareLineIds[i], DCents(amounts[i]), 1, TRUE),
         amt  |-> DCents(amounts[i])]]

InitShares ==
    /\ ledger = [allow_negative_balance |-> FALSE]
    /\ policy = <<>>
    /\ order = <<>>
    /\ now = 0
    /\ runs = <<>>
    /\ events = <<>>
    /\ call = NoCall
    /\ lifetime = <<>>
    /\ reported = <<>>
    /\ deliveries = 0
    /\ pending = {}

\* RewardsAllocator._allocate_points_to_lines(eligible_by_line=...,
\* points_total=...)
AllocatePointsToLines ==
    /\ call = NoCall
    /\ \E amounts \in UNION {[1..n -> ShareAmounts] : n \in 0..MaxShareLines} :
          \E points_total \in 0..MaxSharePoints :
             call' = [op |-> "allocate_points_to_lines",
                      eligible_by_line |-> shares_of(amounts),
                      points_total |-> points_total,
                      result |-> allocate_points_to_lines(shares_of(amounts), points_total)]
    /\ UNCHANGED <<ledger, policy, order, now, runs, events, lifetime, reported, deliveries, pending>>

NextShares ==
    AllocatePointsToLines

SpecShares ==
    InitShares /\ [][NextShares]_vars

\* the eligible amount of line i of the call, in hundredths
ShareCents(i) ==
    DQuantCents(call.eligible_by_line[i].amt)

RECURSIVE ShareCentsFrom(_)
ShareCentsFrom(i) ==
    IF i > Len(call.eligible_by_line) THEN 0 ELSE ShareCents(i) + ShareCentsFrom(i + 1)

\* floor(s) for line i, s = points_total * line_eligible / total_eligible
ShareFloor(i) ==
    (call.points_total * ShareCents(i)) \div ShareCentsFrom(1)

\* the fractional part of s for line i, in units of 1 / total_eligible
ShareFraction(i) ==
    (call.points_total * ShareCents(i)) % ShareCentsFrom(1)

RECURSIVE ShareFloorsFrom(_)
ShareFloorsFrom(i) ==
    IF i > Len(call.eligible_by_line) THEN 0 ELSE ShareFloor(i) + ShareFloorsFrom(i + 1)

\* the lines that come before line i when the extra points are handed out:
\* those with a larger fractional part, and the earlier ones with the same
SharesAhead(i) ==
    {j \in 1..Len(call.eligible_by_line) :
        \/ ShareFraction(j) > ShareFraction(i)
        \/ ShareFraction(j) = ShareFraction(i) /\ j < i}

\* the points the result gives line i
SharePoints(i) ==
    LET hits == {k \in 1..Len(call.result) :
                    call.result[k].line.line_id = call.eligible_by_line[i].line.line_id}
    IN  IF hits = {} THEN -1 ELSE call.result[SetMin(hits)].pts

\* C20: for points_total > 0 and a positive total eligible amount, each line
\* gets floor(s) or floor(s) + 1 points, s = points_total * line_eligible /
\* total_eligible; the extra points, points_total - sum(floors) of them, go
\* to the lines with the largest fractional parts of s, the earlier line of
\* the sequence first among equals; a line with no eligible amount gets 0.
C20_LargestRemainder ==
    (/\ call.op = "allocate_points_to_lines"
     /\ call.points_total > 0
     /\ ShareCentsFrom(1) > 0)
    => /\ Len(call.result) = Len(call.eligible_by_line)
       /\ \A i \in 1..Len(call.eligible_by_line) :
             /\ SharePoints(i) =
                   ShareFloor(i)
                   + (IF Cardinality(SharesAhead(i)) < call.points_total - ShareFloorsFrom(1)
                      THEN 1 ELSE 0)
             /\ ShareCents(i) = 0 => SharePoints(i) = 0

\* --------------------------------------------------------------------------
\* SpecCost: one call of CostModel.compute on inputs that switch each rate
\* and each per-order cost on and off.  order holds the inputs as integers:
\* prices and costs in hundredths, rates in ten-thousandths.
\* --------------------------------------------------------------------------
MaxQuantity == 3

CostCases ==
    [retail_price               : {0, 912},
     unit_cost                  : {0, 500},
     quantity                   : {0, 1, MaxQuantity},
     payment_processor_rate     : {0, 290},
     payment_processor_fixed    : {0, 30},
     platform_fee_rate          : {0, 200},
     shipping_cost_per_order    : {0, 499},
     tax_rate                   : {0, 825},
     rewards_rate_of_retail     : {0, 150},
     points_ops_cost_per_order  : {0, 5},
     settlement_cost_per_order  : {0, 2},
     overhead_rate_of_retail    : {0, 500},
     risk_buffer_rate_of_retail : {0, 75}]

\* CostInputs(...) for a case
CostInputs(case) ==
    [retail_price               |-> DCents(case.retail_price),
     unit_cost                  |-> DCents(case.unit_cost),
     quantity                   |-> case.quantity,
     payment_processor_rate     |-> DRate(case.payment_processor_rate),
     payment_processor_fixed    |-> DCents(case.payment_processor_fixed),
     platform_fee_rate          |-> DRate(case.platform_fee_rate),
     shipping_cost_per_order    |-> DCents(case.shipping_cost_per_order),
     tax_rate                   |-> DRate(case.tax_rate),
     rewards_rate_of_retail     |-> DRate(case.rewards_rate_of_retail),
     points_ops_cost_per_order  |-> DCents(case.points_ops_cost_per_order),
     settlement_cost_per_order  |-> DCents(case.settlement_cost_per_order),
     overhead_rate_of_retail    |-> DRate(case.overhead_rate_of_retail),
     risk_buffer_rate_of_retail |-> DRate(case.risk_buffer_rate_of_retail)]

InitCost ==
    /\ order \in CostCases
    /\ call = NoCall
    /\ policy = <<>>
    /\ ledger = [allow_negative_balance |-> FALSE]
    /\ events = <<>>
    /\ now = 0
    /\ runs = <<>>
    /\ lifetime = <<>>
    /\ reported = <<>>
    /\ deliveries = 0
    /\ pending = {}

\* CostModel().compute(CostInputs(...))
ComputeCost ==
    /\ call = NoCall
    /\ call' = computed(CostInputs(order))
    /\ UNCHANGED <<ledger, policy, order, now, runs, events, lifetime, reported, deliveries, pending>>

NextCost ==
    ComputeCost

SpecCost ==
    InitCost /\ [][NextCost]_vars

\* The reference, in exact integer arithmetic.  Amounts are fractions of a
\* hundredth with the denominator RefUnit.
RefUnit ==
    10000 * order.quantity

\* a rate applied to the retail price
RefRate(rate) ==
    order.retail_price * rate * order.quantity

\* a per-order cost divided by the quantity
RefPerOrder(cost) ==
    cost * 10000

RefProcessorFee ==
    RefRate(order.payment_processor_rate) + RefPerOrder(order.payment_processor_fixed)

RefTotalCosts ==
    order.unit_cost * RefUnit
    + RefProcessorFee
    + RefRate(order.platform_fee_rate)
    + RefPerOrder(order.shipping_cost_per_order)
    + RefRate(order.tax_rate)
    + RefRate(order.rewards_rate_of_retail)
    + RefRate(order.overhead_rate_of_retail)
    + RefRate(order.risk_buffer_rate_of_retail)
    + RefPerOrder(order.points_ops_cost_per_order)
    + RefPerOrder(order.settlement_cost_per_order)

RefNetProfit ==
    order.retail_price * RefUnit - RefTotalCosts

\* n / d rounded to the nearest integer, a half away from 0, for d > 0
RefHalfUp(n, d) ==
    IF n >= 0 THEN (2 * n + d) \div (2 * d) ELSE -((d - 2 * n) \div (2 * d))

\* k more decimal digits of rem / d after the digits acc, the last one
\* rounded half up
RECURSIVE RefDigits(_, _, _, _)
RefDigits(rem, d, k, acc) ==
    IF k = 0 THEN acc + (IF 2 * rem >= d THEN 1 ELSE 0)
    ELSE RefDigits((10 * rem) % d, d, k - 1, 10 * acc + (10 * rem) \div d)

\* net_profit / gross_revenue in ten-thousandths, 0 without revenue
RefNetMargin ==
    IF order.retail_price = 0 THEN 0
    ELSE IF RefNetProfit >= 0
    THEN RefDigits(RefNetProfit % (order.retail_price * RefUnit),
                   order.retail_price * RefUnit, 4,
                   RefNetProfit \div (order.retail_price * RefUnit))
    ELSE -RefDigits((-RefNetProfit) % (order.retail_price * RefUnit),
                    order.retail_price * RefUnit, 4,
                    (-RefNetProfit) \div (order.retail_price * RefUnit))

\* a field of the breakdown is the reference amount n / RefUnit to the cent
IsCents(field, n) ==
    DCmp(field, DCents(RefHalfUp(n, RefUnit))) = 0

\* C21: for quantity >= 1, every field of the breakdown compute returns is
\* the reference amount rounded as the breakdown rounds it: each rate times
\* the retail price, each per-order cost divided by the quantity, cogs the
\* unit cost, total_costs their sum, net_profit = gross_revenue -
\* total_costs, and net_margin = net_profit / gross_revenue, 0 when there is
\* no revenue.
C21_ComputeEqualsReference ==
    (call.op = "compute" /\ order.quantity >= 1) =>
        /\ call.pc = "returned"
        /\ IsCents(call.result.gross_revenue, order.retail_price * RefUnit)
        /\ IsCents(call.result.cogs, order.unit_cost * RefUnit)
        /\ IsCents(call.result.payment_processor_fee, RefProcessorFee)
        /\ IsCents(call.result.platform_fee, RefRate(order.platform_fee_rate))
        /\ IsCents(call.result.taxes, RefRate(order.tax_rate))
        /\ IsCents(call.result.rewards_reserve, RefRate(order.rewards_rate_of_retail))
        /\ IsCents(call.result.overhead_reserve, RefRate(order.overhead_rate_of_retail))
        /\ IsCents(call.result.risk_buffer, RefRate(order.risk_buffer_rate_of_retail))
        /\ IsCents(call.result.shipping, RefPerOrder(order.shipping_cost_per_order))
        /\ IsCents(call.result.points_ops, RefPerOrder(order.points_ops_cost_per_order))
        /\ IsCents(call.result.settlement, RefPerOrder(order.settlement_cost_per_order))
        /\ IsCents(call.result.total_costs, RefTotalCosts)
        /\ IsCents(call.result.net_profit, RefNetProfit)
        /\ DCmp(call.result.net_margin, DRate(RefNetMargin)) = 0

\* C21 witness: compute returned for several units with every rate and every
\* per-order cost switched on, the shipping per unit not a whole number of
\* hundredths, and a net profit above 0
C21_Witness ==
    /\ call.op = "compute" /\ call.pc = "returned"
    /\ order.quantity = MaxQuantity
    /\ \A f \in DOMAIN order : order[f] > 0
    /\ order.shipping_cost_per_order % order.quantity # 0
    /\ DSign(call.result.net_profit) > 0

\* --------------------------------------------------------------------------
\* SpecDiscount: one call of allocate_for_order on orders of lines at
\* quantity 1 with different prices, under the default earning rule, with
\* no discount, a discount below the eligible total and one above it.
\* --------------------------------------------------------------------------
MaxDiscountLines == 2

DiscountPrices ==
    {100, 200, 500}

DiscountTotals ==
    {0, 250, 1000}

\* points_per_currency_unit 100 and earn_rate_of_eligible_spend 0.02
DiscountPolicies ==
    {[tiers |-> default_tiers, points_per_currency_unit |-> DCents(10000),
      earn_rate_of_eligible_spend |-> DRate(200), rounding |-> r,
      allow_downgrades |-> FALSE, allow_negative_points_balance |-> FALSE] :
        r \in {"nearest", "down"}}

DiscountOrders ==
    {[order_id |-> <<"o1">>, member_ref |-> "m1",
      lines |-> [i \in 1..Len(ls) |->
                    OrderLine(ShareLineIds[i], DCents(ls[i][1]), 1, ls[i][2])],
      discounts_total |-> DCents(d)] :
        ls \in UNION {[1..n -> DiscountPrices \X BOOLEAN] : n \in 0..MaxDiscountLines},
        d \in DiscountTotals}

InitDiscount ==
    /\ policy \in DiscountPolicies
    /\ ValidPolicy(policy)
    /\ order \in DiscountOrders
    /\ ledger = [allow_negative_balance |-> policy.allow_negative_points_balance]
    /\ now = 1
    /\ runs = <<>>
    /\ events = <<>>
    /\ call = NoCall
    /\ lifetime = <<>>
    /\ reported = <<>>
    /\ deliveries = 1
    /\ pending = {}

SpecDiscount ==
    InitDiscount /\ [][NextAlloc]_vars

\* remaining_discount of _apply_proportional_discounts after each line from
\* line i on
RECURSIVE RemainingDiscounts(_, _, _, _, _)
RemainingDiscounts(eligible_by_line, discounts_total, eligible_total, i, remaining_discount) ==
    IF i > Len(eligible_by_line) THEN <<>>
    ELSE LET amt   == eligible_by_line[i].amt
             share == DMul(DDiv(amt, eligible_total), discounts_total)
             left  == IF DSign(amt) <= 0 THEN remaining_discount
                      ELSE IF DCmp(share, remaining_discount) <= 0
                      THEN DSub(remaining_discount, share)
                      ELSE DZero
         IN  <<left>> \o RemainingDiscounts(eligible_by_line, discounts_total,
                                            eligible_total, i + 1, left)

\* the eligible total of the order before its discount
EligibleBefore ==
    SumAmounts(eligible_amounts(order), 1, DZero)

\* the eligible total of the order after its discount
EligibleAfter ==
    SumAmounts(discounted_amounts(order), 1, DZero)

\* the order was allocated with a discount over a positive eligible total
Discounted ==
    /\ call.op = "allocate_for_order"
    /\ DSign(safe_money(order.discounts_total)) > 0
    /\ DSign(EligibleBefore) > 0

\* C22: when an order with discounts_total > 0 and a positive eligible total
\* is allocated, every line's discounted amount lies between 0 and its
\* amount before the discount, a line that is not eligible stays at 0, the
\* remaining discount never falls below 0, and the discounted amounts add up
\* to max(0, eligible total - discounts_total)
C22_DiscountProration ==
    Discounted =>
       /\ \A i \in 1..Len(order.lines) :
             /\ DSign(discounted_amounts(order)[i].amt) >= 0
             /\ DCmp(discounted_amounts(order)[i].amt, eligible_amounts(order)[i].amt) <= 0
             /\ ~order.lines[i].eligible_for_points
                   => discounted_amounts(order)[i].amt = DZero
       /\ LET left == RemainingDiscounts(eligible_amounts(order),
                                         safe_money(order.discounts_total),
                                         EligibleBefore, 1,
                                         safe_money(order.discounts_total))
          IN  \A i \in 1..Len(left) : DSign(left[i]) >= 0
       /\ EligibleAfter
             = DMax(DZero, DSub(EligibleBefore, safe_money(order.discounts_total)))

\* per_line_points of the allocate_for_order call just made
PerLinePoints ==
    allocate_points_to_lines(discounted_amounts(order), call.result.points_awarded)

\* the entries of per_line_points with more than 0 points
Awarded(per_line_points) ==
    {i \in 1..Len(per_line_points) : per_line_points[i].pts > 0}

\* the events are those of the entries in with_points, in their order, each
\* with the fields make_earn_event is given for its line
EarnEventsOf(per_line_points, with_points, evs) ==
    /\ Len(evs) = Cardinality(with_points)
    /\ \A i \in with_points :
          LET e    == evs[Cardinality({j \in with_points : j <= i})]
              line == per_line_points[i].line
          IN  /\ e.event_type = "earn"
              /\ e.member_ref = order.member_ref
              /\ e.related_ref = order.order_id
              /\ e.related_line_ref = line.line_id
              /\ e.points_delta = per_line_points[i].pts
              /\ e.event_id = <<"earn", ":">> \o order.order_id \o <<":">> \o line.line_id
              /\ e.idempotency_key = <<"k1", ":">> \o order.order_id \o <<":">> \o line.line_id

EarnEventsFor(per_line_points, evs) ==
    EarnEventsOf(per_line_points, Awarded(per_line_points), evs)

\* C23: allocate_for_order returns one earn event for each line that was
\* allocated more than 0 points, in the order of the allocation, and none
\* for a line allocated 0; the event has event_type "earn", the order's
\* member_ref, related_ref = order_id, related_line_ref = line_id,
\* points_delta = the line's points, event_id =
\* event_id_prefix:order_id:line_id and idempotency_key =
\* idempotency_prefix:order_id:line_id
C23_OneEarnEventPerAwardedLine ==
    call.op = "allocate_for_order" =>
        EarnEventsFor(PerLinePoints, call.result.events)

\* two of three entries got points
TwoOfThree(per_line_points) ==
    /\ Len(per_line_points) = 3
    /\ Cardinality(Awarded(per_line_points)) = 2

\* C23 witness: an order of three lines of which one got no points and the
\* other two got an event each
C23_Witness ==
    /\ call.op = "allocate_for_order"
    /\ Len(call.result.events) = 2
    /\ TwoOfThree(PerLinePoints)

\* --------------------------------------------------------------------------
\* SpecProportion: allocate_refund_adjustment over earn events that carry
\* 3 or 18 points and an eligible spend of 15.00, of 0.00 or none, under a
\* policy that converts a refunded 5.00 to 1 point or to none
\* --------------------------------------------------------------------------
ProportionShapes ==
    [line_id : {<<"L1">>, <<"L2">>},
     points_delta : {3, 18},
     eligible_spend : {NoAmount, 0, 1500}]

ProportionEventLists ==
    UNION {{[i \in 1..n |->
                LedgerEvent(IF i = 1 THEN <<"e1">> ELSE <<"e2">>, "m1", "earn",
                            f[i].points_delta, NoKey, <<"o1">>, f[i].line_id, 1,
                            Meta(f[i].eligible_spend, <<>>))] :
             f \in [1..n -> ProportionShapes]} : n \in 0..MaxOriginal}

\* 1.00 point for each unit of currency, at rate 0.20 or 0.02
ProportionPolicies ==
    {[tiers |-> default_tiers, points_per_currency_unit |-> DCents(100),
      earn_rate_of_eligible_spend |-> DRate(rate), rounding |-> r,
      allow_downgrades |-> FALSE, allow_negative_points_balance |-> FALSE] :
        rate \in {2000, 200}, r \in {"nearest", "down"}}

InitProportion ==
    /\ policy \in ProportionPolicies
    /\ ledger = [allow_negative_balance |-> policy.allow_negative_points_balance]
    /\ events \in ProportionEventLists
    /\ order = <<>>
    /\ now = 2
    /\ runs = <<>>
    /\ call = NoCall
    /\ lifetime = <<>>
    /\ reported = <<>>
    /\ deliveries = 1
    /\ pending = {}

SpecProportion ==
    InitProportion /\ [][NextRefund]_vars

\* the eligible spend on record for a line, in hundredths
RECURSIVE RecordedOnLine(_, _, _)
RecordedOnLine(evs, line_id, i) ==
    IF i > Len(evs) THEN 0
    ELSE (IF i \in with_eligible_spend(evs, line_id) THEN evs[i].meta.eligible_spend ELSE 0)
         + RecordedOnLine(evs, line_id, i + 1)

\* min(E, max(1, floor(E * min(1, r / a)))) for r and a in hundredths
ProportionOf(E, r, a) ==
    IF r >= a THEN E
    ELSE SetMin({E, SetMax({1, (E * r) \div a})})

\* the points the refund of r hundredths on line_id should remove from E
\* earned points
RefundRule(E, r, line_id) ==
    IF RecordedOnLine(events, line_id, 1) > 0
    THEN ProportionOf(E, r, RecordedOnLine(events, line_id, 1))
    ELSE SetMin({E, points_for_eligible_spend(policy, DCents(r))})

\* the points the call removed from line_id
RemovedBy(result, line_id) ==
    LET emitted == {k \in 1..Len(result) : result[k].related_line_ref = line_id}
    IN  IF emitted = {} THEN 0 ELSE -result[CHOOSE k \in emitted : TRUE].points_delta

\* C24: a refund of r > 0 on a line with E > 0 earned points and a recorded
\* eligible amount a > 0 removes min(E, max(1, floor(E * min(1, r / a))))
\* points, so a refund of a or more removes exactly E; with no positive
\* eligible amount on record it removes
\* min(E, policy.points_for_eligible_spend(r))
C24_ProportionalRefund ==
    call.op = "allocate_refund_adjustment" =>
        \A i \in 1..Len(call.refund_line_amounts) :
            LET item == call.refund_line_amounts[i]
                E    == EarnedOnLine(events, item.line_id)
                r    == DQuantCents(item.amount)
            IN  (E > 0 /\ r > 0) =>
                    RemovedBy(call.result, item.line_id) = RefundRule(E, r, item.line_id)

\* C25: every event the allocator emits changes the balance: an earn event
\* of allocate_for_order has points_delta >= 1 and a refund event of
\* allocate_refund_adjustment has points_delta <= -1, also when the points
\* come from the policy conversion of the refunded amount
C25_EventsAreNonzero ==
    /\ call.op = "allocate_for_order" =>
          \A k \in 1..Len(call.result.events) :
              /\ call.result.events[k].event_type = "earn"
              /\ call.result.events[k].points_delta >= 1
    /\ call.op = "allocate_refund_adjustment" =>
          \A k \in 1..Len(call.result) :
              /\ call.result[k].event_type = "refund"
              /\ call.result[k].points_delta <= -1

\* e is an earn event of the member with p > 0 points, an event_id and an
\* idempotency_key that no event of H carries, and a created_at later than
\* that of every event of H
LaterEarn(H, e, m) ==
    /\ e.member_ref = m
    /\ e.event_type = "earn"
    /\ e.points_delta > 0
    /\ \A i \in 1..Len(H) :
          /\ H[i].event_id # e.event_id
          /\ H[i].idempotency_key # e.idempotency_key
          /\ H[i].created_at < e.created_at

\* C26: with allow_negative_balance = false, an earn event of p > 0 points
\* with a fresh event_id and idempotency_key, later than every event of the
\* history H, raises the points_balance of reduce by p: reduce(H ++ [e])
\* has the points_balance of reduce(H) plus p, so removals clamped at 0 do
\* not absorb points earned afterwards
C26_NeverLeftInDebt ==
    ~ledger.allow_negative_balance =>
        \A m \in Members : \A e \in LedgerEventUniverse :
            LaterEarn(events, e, m) =>
                reduce(FALSE, m, Append(events, e)).points_balance
                    = reduce(FALSE, m, events).points_balance + e.points_delta

\* --------------------------------------------------------------------------
\* SpecEvaluate: one call of TierEngine.evaluate under every valid policy of
\* up to MaxTiers tiers with thresholds 0.00, 10.00, 10.004 and 20.00, listed
\* in any order, for spends in whole hundredths below, on and between them
\* --------------------------------------------------------------------------
EvaluateThresholds ==
    {DScaled(k, -3) : k \in {0, 10000, 10004, 20000}}

EvaluatePolicies ==
    {p \in {[tiers |-> [i \in 1..n |-> Tier(TierKeys[i], th[i])],
             points_per_currency_unit |-> DCents(100),
             earn_rate_of_eligible_spend |-> DRate(2000), rounding |-> "nearest",
             allow_downgrades |-> FALSE, allow_negative_points_balance |-> FALSE] :
                n \in 1..MaxTiers, th \in [1..MaxTiers -> EvaluateThresholds]} :
        ValidPolicy(p)}

EvaluateSpends ==
    {DCents(k) : k \in {-500, 0, 500, 1000, 1001, 1500, 2000, 2500}}

InitEvaluate ==
    /\ policy \in EvaluatePolicies
    /\ ledger = [allow_negative_balance |-> policy.allow_negative_points_balance]
    /\ events = <<>>
    /\ order = <<>>
    /\ now = 1
    /\ runs = <<>>
    /\ call = NoCall
    /\ lifetime = <<>>
    /\ reported = <<>>
    /\ deliveries = 0
    /\ pending = {}

\* TierEngine(policy).evaluate(lifetime_spend)
Evaluate(lifetime_spend) ==
    /\ call' = [op |-> "evaluate", lifetime_spend |-> lifetime_spend,
                result |-> evaluate(policy, lifetime_spend)]
    /\ UNCHANGED <<ledger, policy, order, now, runs, events, lifetime, reported, deliveries, pending>>

NextEvaluate ==
    /\ call = NoCall
    /\ \E s \in EvaluateSpends : Evaluate(s)

SpecEvaluate ==
    InitEvaluate /\ [][NextEvaluate]_vars

\* the tiers of the policy whose threshold is at most x
TiersUpTo(x) ==
    {i \in 1..Len(policy.tiers) : DCmp(policy.tiers[i].min_lifetime_spend, x) <= 0}

\* the tiers of the policy whose threshold is above x
TiersAbove(x) ==
    {i \in 1..Len(policy.tiers) : DCmp(policy.tiers[i].min_lifetime_spend, x) > 0}

\* status is the reference status of the spend, which is at least 0.00
ReferenceStatus(status, spend) ==
    /\ \E i \in TiersUpTo(spend) :
          /\ status.current_tier = policy.tiers[i]
          /\ \A j \in TiersUpTo(spend) :
                DCmp(policy.tiers[j].min_lifetime_spend,
                     policy.tiers[i].min_lifetime_spend) <= 0
    /\ IF TiersAbove(status.current_tier.min_lifetime_spend) = {}
       THEN status.next_tier = NoTier
       ELSE \E i \in TiersAbove(status.current_tier.min_lifetime_spend) :
               /\ status.next_tier = policy.tiers[i]
               /\ \A j \in TiersAbove(status.current_tier.min_lifetime_spend) :
                     DCmp(policy.tiers[i].min_lifetime_spend,
                          policy.tiers[j].min_lifetime_spend) <= 0
    /\ status.is_top_tier <=> status.next_tier = NoTier
    /\ status.next_tier # NoTier =>
          /\ status.amount_to_next_tier # NoAmount
          /\ DCents(status.amount_to_next_tier)
                = DSub(status.next_tier.min_lifetime_spend, spend)
          /\ status.amount_to_next_tier > 0

\* C27: evaluate returns the reference status of max(spend, 0): current is
\* a tier with the greatest threshold at or below it, next is a tier with
\* the smallest threshold above current's or none, is_top_tier holds exactly
\* when there is no next tier, and with a next tier amount_to_next_tier is
\* its threshold minus the spend, which is above 0 for a spend in whole
\* hundredths
C27_EvaluateEqualsReference ==
    call.op = "evaluate" =>
        ReferenceStatus(call.result, NonNegative(call.lifetime_spend))

\* the lists that hold the events of evs in another order
Permuted(evs) ==
    {[i \in 1..Len(evs) |-> evs[f[i]]] :
        f \in {g \in [1..Len(evs) -> 1..Len(evs)] :
                  \A i, j \in 1..Len(evs) : g[i] = g[j] => i = j}}

\* no two events of evs have both created_at and event_id in common
DistinctSortKeys(evs) ==
    \A i, j \in 1..Len(evs) :
        (evs[i].created_at = evs[j].created_at /\ evs[i].event_id = evs[j].event_id)
            => i = j

\* C28: when the (created_at, event_id) pairs of the events are pairwise
\* distinct, reduce returns the same LedgerState whatever the order in which
\* the events are supplied, also when events share an idempotency_key
C28_ReduceOrderIndependent ==
    (call.op = "reduce" /\ DistinctSortKeys(events)) =>
        \A evs \in Permuted(events) :
            reduce(ledger.allow_negative_balance, call.member_ref, evs) = call.state

\* C28 witness: two events of the member share an idempotency_key and were
\* supplied later one first; reduce applied the earlier one, whose
\* points_delta is not that of the other
C28_Witness ==
    /\ call.op = "reduce"
    /\ Len(events) = 2
    /\ DistinctSortKeys(events)
    /\ events[1].member_ref = call.member_ref
    /\ events[2].member_ref = call.member_ref
    /\ events[1].idempotency_key # NoKey
    /\ events[1].idempotency_key = events[2].idempotency_key
    /\ events[1].event_id # events[2].event_id
    /\ events[2].created_at < events[1].created_at
    /\ events[2].points_delta > 0
    /\ events[1].points_delta < 0
    /\ call.state.points_balance = events[2].points_delta
    /\ call.state.applied_event_ids = <<events[2].event_id>>

\* C29: a delivery of the order that follows another delivery of it leaves
\* the stored lifetime spend of the member, and the tier reported for the
\* member, as the first delivery left them: lifetime spend is incremented
\* at most once for the order
C29_RetriedDeliveryHasOneEffect ==
    [][(/\ call.op = "award_for_order"
        /\ call'.op = "award_for_order"
        /\ deliveries' = deliveries - 1)
       => /\ lifetime'[order.member_ref] = lifetime[order.member_ref]
          /\ call'.member_status.tier = call.member_status.tier]_vars

\* C30: any two earn events that one call of allocate_for_order returns
\* have different event_id and different idempotency_key, so that reduce
\* over the returned events gives total_earned = points_awarded
C30_EventIdsUniqueInAllocation ==
    call.op = "allocate_for_order" =>
        /\ \A i, j \in 1..Len(call.result.events) :
              i # j =>
                 /\ call.result.events[i].event_id # call.result.events[j].event_id
                 /\ call.result.events[i].idempotency_key
                       # call.result.events[j].idempotency_key
        /\ reduce(ledger.allow_negative_balance, order.member_ref,
                  call.result.events).total_earned
              = call.result.points_awarded

====
